---- MODULE Spec2Model ----
(***************************************************************************)
(* Model of the marketing agent's orchestration loop                       *)
(* (src/marketing_agent.py, MarketingAgent.run_stream) with the input      *)
(* sanitizer, the output safety filter, the tool-call parser, the tool     *)
(* dispatcher and the Gradio relay (src/app.py, run_agent).                *)
(*                                                                         *)
(* Texts are sequences of symbols.  A symbol stands for a piece of text    *)
(* the code treats as a unit: "txt" is prose, "ws" is whitespace, "OPEN"   *)
(* and "CLOSE" are the <tool_call> and </tool_call> markers, "MARK" is the *)
(* final-answer marker, "D_os" and "D_eval" are texts matched by a         *)
(* dangerous pattern, and the "J_..." symbols are candidate JSON bodies.   *)
(***************************************************************************)
EXTENDS Integers, Sequences, FiniteSets, TLC

\* ------------------------------------------------------------------------
\* Bounds of the model
\* ------------------------------------------------------------------------
\* largest max_iterations an agent is constructed with
MaxN == 3

\* longest text, in symbols, handed to the parser on its own
MaxTextLen == 5

\* largest max_iterations of an agent that two interleaved runs share
MaxPairN == 2

\* most pieces a text handed to the sanitizer on its own is made of, and
\* the largest small max_length it is called with
MaxPieces == 3
MaxCut == 4

\* ------------------------------------------------------------------------
\* Generic text helpers (str.strip, str.split(...)[-1], substring search)
\* ------------------------------------------------------------------------
RECURSIVE LStrip(_)
LStrip(s) ==
    IF s # << >> /\ Head(s) = "ws" THEN LStrip(Tail(s)) ELSE s

RECURSIVE RStrip(_)
RStrip(s) ==
    IF s # << >> /\ s[Len(s)] = "ws" THEN RStrip(SubSeq(s, 1, Len(s) - 1)) ELSE s

\* str.strip()
Strip(s) == RStrip(LStrip(s))

\* index of the first occurrence of symbol tok at or after position i, 0 if none
RECURSIVE FindFrom(_, _, _)
FindFrom(s, tok, i) ==
    IF i > Len(s) THEN 0
    ELSE IF s[i] = tok THEN i
    ELSE FindFrom(s, tok, i + 1)

\* index of the last occurrence of symbol tok, 0 if none
RECURSIVE FindLast(_, _, _)
FindLast(s, tok, i) ==
    IF i < 1 THEN 0
    ELSE IF s[i] = tok THEN i
    ELSE FindLast(s, tok, i - 1)

\* sub occurs in s starting at position i
OccursAt(s, sub, i) ==
    /\ i >= 1
    /\ i + Len(sub) - 1 <= Len(s)
    /\ SubSeq(s, i, i + Len(sub) - 1) = sub

\* `sub in s`
Contains(s, sub) == \E i \in 1..Len(s) : OccursAt(s, sub, i)

\* ------------------------------------------------------------------------
\* Output safety filter
\* ------------------------------------------------------------------------
\* the pattern list of check_response_safety, in its order
dangerous_patterns ==
    << "os_call", "subprocess", "eval_call", "exec_call", "dunder_import", "open_w" >>

\* re.search(pattern, response): the symbols a pattern matches
PatternMatches(pattern, response) ==
    \/ pattern = "os_call"   /\ FindFrom(response, "D_os", 1) # 0
    \/ pattern = "eval_call" /\ FindFrom(response, "D_eval", 1) # 0

\* a filter that searches only the first pattern of the list
check_response_safety_first_only(response) ==
    IF PatternMatches(dangerous_patterns[1], response)
    THEN [safe |-> FALSE, reason |-> dangerous_patterns[1]]
    ELSE [safe |-> TRUE, reason |-> ""]

check_response_safety(response) ==
    IF \E k \in 1..Len(dangerous_patterns) : PatternMatches(dangerous_patterns[k], response)
    THEN LET k == CHOOSE k \in 1..Len(dangerous_patterns) :
                     /\ PatternMatches(dangerous_patterns[k], response)
                     /\ \A j \in 1..(k - 1) : ~PatternMatches(dangerous_patterns[j], response)
         IN  [safe |-> FALSE, reason |-> dangerous_patterns[k]]
    ELSE [safe |-> TRUE, reason |-> ""]

\* ------------------------------------------------------------------------
\* Final-answer marker
\* ------------------------------------------------------------------------
\* "ФИНАЛЬНЫЙ ОТВЕТ:" in response
HasMarker(response) == FindFrom(response, "MARK", 1) # 0

\* response.split("ФИНАЛЬНЫЙ ОТВЕТ:", 1)[1].strip(): everything behind the
\* first marker
FinalAnswerFirstMarker(response) ==
    LET k == FindFrom(response, "MARK", 1)
    IN  Strip(SubSeq(response, k + 1, Len(response)))

\* response.split("ФИНАЛЬНЫЙ ОТВЕТ:")[-1].strip()
FinalAnswer(response) ==
    LET k == FindLast(response, "MARK", Len(response))
    IN  Strip(SubSeq(response, k + 1, Len(response)))

\* ------------------------------------------------------------------------
\* JSON bodies the model lets the LLM write between the tool-call markers
\* ------------------------------------------------------------------------
\* a JSON value as json.loads returns it.  kind is the Python type it loads
\* to; hasName / hasArgs are the results of `"name" in v` and
\* `"arguments" in v` (key test on a dict, element test on a list, substring
\* test on a str); name and args are v["name"] and v["arguments"] of a dict.
\* args.m is the mapping as a set of <<parameter, value type>> pairs.
NoName == [t |-> "none", v |-> ""]
NoArgs == [t |-> "none", m |-> {}]
Dict(m) == [t |-> "dict", m |-> m]
Call(n, a) == [kind |-> "dict", hasName |-> TRUE, hasArgs |-> TRUE,
               name |-> n, args |-> a]
Plain(kind, hn, ha) == [kind |-> kind, hasName |-> hn, hasArgs |-> ha,
                        name |-> NoName, args |-> NoArgs]

JsonValue ==
    [ \* {"name": "estimate_roi", "arguments": {"activity_type": "seo", "budget": 1000}}
      J_roi |-> Call([t |-> "str", v |-> "estimate_roi"],
                     Dict({<<"activity_type", "str">>, <<"budget", "num">>})),
      \* {"name": "analyze_target_audience", "arguments": {"product_or_service": "crm", "industry": "IT"}}
      J_aud |-> Call([t |-> "str", v |-> "analyze_target_audience"],
                     Dict({<<"product_or_service", "str">>, <<"industry", "str">>})),
      \* {"name": "estimate_roi", "arguments": {"activity_type": "seo"}}: budget is missing
      J_missing |-> Call([t |-> "str", v |-> "estimate_roi"],
                         Dict({<<"activity_type", "str">>})),
      \* {"name": "estimate_roi", "arguments": {"activity_type": "seo", "budget": "many"}}
      J_badtype |-> Call([t |-> "str", v |-> "estimate_roi"],
                         Dict({<<"activity_type", "str">>, <<"budget", "str">>})),
      \* {"name": "estimate_roi", "arguments": {"activity_type": "seo", "budget": 1, "x": 1}}
      J_extra |-> Call([t |-> "str", v |-> "estimate_roi"],
                       Dict({<<"activity_type", "str">>, <<"budget", "num">>, <<"x", "num">>})),
      \* {"name": "web_search", "arguments": {}}
      J_unknown |-> Call([t |-> "str", v |-> "web_search"], Dict({})),
      \* {"name": "web_search", "arguments": "q"}
      J_unknown_str |-> Call([t |-> "str", v |-> "web_search"], [t |-> "str", m |-> {}]),
      \* {"name": 5, "arguments": {}}
      J_name_num |-> Call([t |-> "num", v |-> "5"], Dict({})),
      \* {"name": ["estimate_roi"], "arguments": {}}
      J_name_list |-> Call([t |-> "list", v |-> "estimate_roi"], Dict({})),
      \* {"name": "estimate_roi", "arguments": ["seo", 1000]}
      J_args_list |-> Call([t |-> "str", v |-> "estimate_roi"], [t |-> "list", m |-> {}]),
      \* {"name": "estimate_roi", "arguments": null}
      J_args_null |-> Call([t |-> "str", v |-> "estimate_roi"], [t |-> "null", m |-> {}]),
      \* {"tool": "estimate_roi"}: neither key
      J_nokeys |-> Plain("dict", FALSE, FALSE),
      \* {"name": "estimate_roi"}: no arguments key
      J_noargs |-> [kind |-> "dict", hasName |-> TRUE, hasArgs |-> FALSE,
                    name |-> [t |-> "str", v |-> "estimate_roi"], args |-> NoArgs],
      \* 42
      J_num |-> Plain("num", FALSE, FALSE),
      \* null
      J_null |-> Plain("null", FALSE, FALSE),
      \* "name and arguments"
      J_str |-> Plain("str", TRUE, TRUE),
      \* "hello"
      J_str_plain |-> Plain("str", FALSE, FALSE),
      \* ["name", "arguments"]
      J_arr |-> Plain("list", TRUE, TRUE),
      \* []
      J_arr_empty |-> Plain("list", FALSE, FALSE) ]

\* symbols that are a complete JSON text
JsonSymbols == DOMAIN JsonValue

\* a JSON object one of whose string values holds the text </tool_call>:
\* {"name": "analyze_target_audience", "arguments": {"product_or_service":
\* "course on the </tool_call> tag"}}.  For the regular expressions it is
\* three pieces, the middle one being a closing marker; neither "J_q_head"
\* nor "J_q_tail" is JSON on its own.
QuotedMarkerBody == << "J_q_head", "CLOSE", "J_q_tail" >>
QuotedMarkerValue ==
    Call([t |-> "str", v |-> "analyze_target_audience"],
         Dict({<<"product_or_service", "str">>}))

\* symbols whose text begins with "{" / ends with "}": the JSON objects,
\* "J_bad" ({not json}) and, beginning only, "J_trunc" ({"name": "estim)
StartsBrace(tok) ==
    \/ tok \in JsonSymbols /\ JsonValue[tok].kind = "dict"
    \/ tok \in {"J_bad", "J_trunc", "J_q_head"}

EndsBrace(tok) ==
    \/ tok \in JsonSymbols /\ JsonValue[tok].kind = "dict"
    \/ tok \in {"J_bad", "J_q_tail"}

\* json.loads(match.strip()): ok is FALSE where it raises JSONDecodeError
json_loads(match) ==
    LET s == Strip(match)
    IN  IF Len(s) = 1 /\ s[1] \in JsonSymbols
        THEN [ok |-> TRUE, v |-> JsonValue[s[1]]]
        ELSE IF s = QuotedMarkerBody
        THEN [ok |-> TRUE, v |-> QuotedMarkerValue]
        ELSE [ok |-> FALSE, v |-> Plain("null", FALSE, FALSE)]

\* ------------------------------------------------------------------------
\* Tool-call protocol parser
\* ------------------------------------------------------------------------
\* re.findall(r'<tool_call>\s*(.*?)\s*</tool_call>', response, re.DOTALL)
\* scanning from position i: each opening marker pairs with the first closing
\* marker after it, the capture excludes the whitespace around the body, and
\* the scan resumes behind the closing marker
RECURSIVE ClosedMatches(_, _)
ClosedMatches(s, i) ==
    LET o == FindFrom(s, "OPEN", i)
        c == IF o = 0 THEN 0 ELSE FindFrom(s, "CLOSE", o + 1)
    IN  IF c = 0 THEN << >>
        ELSE << Strip(SubSeq(s, o + 1, c - 1)) >> \o ClosedMatches(s, c + 1)

\* index of the first non-whitespace symbol at or after i, 0 if none
RECURSIVE FirstNonWs(_, _)
FirstNonWs(s, i) ==
    IF i > Len(s) THEN 0
    ELSE IF s[i] # "ws" THEN i
    ELSE FirstNonWs(s, i + 1)

\* re.findall(r'<tool_call>\s*(\{.*?\})\s*$', response, re.DOTALL) scanning
\* from position i: the leftmost opening marker that is followed (past
\* whitespace) by "{" while the text ends (before whitespace) with "}"; the
\* capture runs from that "{" to that "}", so there is at most one match
RECURSIVE OpenMatches(_, _)
OpenMatches(s, i) ==
    LET o == FindFrom(s, "OPEN", i)
        f == IF o = 0 THEN 0 ELSE FirstNonWs(s, o + 1)
        l == Len(RStrip(s))
    IN  IF o = 0 THEN << >>
        ELSE IF f # 0 /\ StartsBrace(s[f]) /\ l >= f /\ EndsBrace(s[l])
             THEN << SubSeq(s, f, l) >>
             ELSE OpenMatches(s, o + 1)

\* a parser that always adds the unclosed trailing block to the closed ones
FindMatchesAlsoOpen(response) ==
    ClosedMatches(response, 1) \o OpenMatches(response, 1)

\* the matches the parser iterates over: the closed blocks, and only if
\* there is none the unclosed trailing block
FindMatches(response) ==
    IF ClosedMatches(response, 1) # << >>
    THEN ClosedMatches(response, 1)
    ELSE OpenMatches(response, 1)

\* `"name" in tool_call` raises TypeError on a value that is no container
MembershipRaises(v) == v.kind \in {"num", "null", "bool"}

\* a test that accepts a block carrying either key
HasBothKeysOr(v) == v.hasName \/ v.hasArgs

\* "name" in tool_call and "arguments" in tool_call
HasBothKeys(v) == v.hasName /\ v.hasArgs

\* the for loop over the matches: raised is TRUE where an exception other
\* than json.JSONDecodeError leaves the parser
RECURSIVE ParseLoop(_, _, _)
ParseLoop(matches, k, tool_calls) ==
    IF k > Len(matches) THEN [raised |-> FALSE, calls |-> tool_calls]
    ELSE LET r == json_loads(matches[k])
         IN  IF ~r.ok THEN ParseLoop(matches, k + 1, tool_calls)
             ELSE IF MembershipRaises(r.v) THEN [raised |-> TRUE, calls |-> tool_calls]
             ELSE IF HasBothKeys(r.v) THEN ParseLoop(matches, k + 1, Append(tool_calls, r.v))
             ELSE ParseLoop(matches, k + 1, tool_calls)

\* a parser that returns the tool calls last block first
_parse_tool_calls_reversed(response) ==
    LET p == ParseLoop(FindMatches(response), 1, << >>)
    IN  [raised |-> p.raised,
         calls |-> [k \in 1..Len(p.calls) |-> p.calls[Len(p.calls) + 1 - k]]]

_parse_tool_calls(response) == ParseLoop(FindMatches(response), 1, << >>)

\* ------------------------------------------------------------------------
\* Tool registry and dispatch
\* ------------------------------------------------------------------------
\* the signatures of the registered callables: required and accepted
\* parameters, and the parameters whose use raises on a value that is not a
\* string (strOnly) or that is a string (numOnly)
TOOL_FUNCTIONS ==
    [ analyze_target_audience |->
        [required |-> {"product_or_service"},
         accepted |-> {"product_or_service", "industry"},
         strOnly |-> {"industry"}, numOnly |-> {}],
      estimate_roi |->
        [required |-> {"activity_type", "budget"},
         accepted |-> {"activity_type", "budget", "duration_days"},
         strOnly |-> {"activity_type"}, numOnly |-> {"budget", "duration_days"}],
      analyze_seasonality |->
        [required |-> {"industry"},
         accepted |-> {"industry", "current_month"},
         strOnly |-> {"industry", "current_month"}, numOnly |-> {}],
      channel_effectiveness |->
        [required |-> {"goal"},
         accepted |-> {"goal", "target_audience_age", "budget_range"},
         strOnly |-> {"goal"}, numOnly |-> {}],
      competitor_benchmark |->
        [required |-> {"industry"},
         accepted |-> {"industry", "company_size"},
         strOnly |-> {"industry", "company_size"}, numOnly |-> {}],
      budget_allocator |->
        [required |-> {"total_budget", "primary_goal"},
         accepted |-> {"total_budget", "primary_goal", "industry"},
         strOnly |-> {"primary_goal"}, numOnly |-> {"total_budget"}],
      estimate_budget |->
        [required |-> {"goal", "industry"},
         accepted |-> {"goal", "industry", "target_leads", "company_size"},
         strOnly |-> {"goal", "industry", "company_size"}, numOnly |-> {"target_leads"}],
      estimate_campaign_duration |->
        [required |-> {"goal"},
         accepted |-> {"goal", "budget", "industry", "urgency"},
         strOnly |-> {"goal", "urgency"}, numOnly |-> {"budget"}] ]

Keys(m) == {p[1] : p \in m}

\* TOOL_FUNCTIONS[tool_name](**arguments) raises: the keywords do not bind to
\* the signature, or a value has a type the body cannot compute with
CallRaises(tool, m) ==
    LET sig == TOOL_FUNCTIONS[tool]
    IN  \/ ~(sig.required \subseteq Keys(m))
        \/ ~(Keys(m) \subseteq sig.accepted)
        \/ \E p \in m : p[1] \in sig.strOnly /\ p[2] # "str"
        \/ \E p \in m : p[1] \in sig.numOnly /\ p[2] = "str"

\* the serialized results: json.dumps of {"error": ...} or of the tool's mapping
ErrorResult(msg, tool) == [kind |-> "error", msg |-> msg, tool |-> tool, args |-> {}]
ToolResult(tool, m) == [kind |-> "ok", msg |-> "", tool |-> tool, args |-> m]

\* `tool_name not in TOOL_FUNCTIONS` raises TypeError on an unhashable name
LookupRaises(tool_name) == tool_name.t \in {"list", "dict"}

\* a dispatcher without the try/except around the call
_execute_tool_uncaught(tool_name, arguments) ==
    IF LookupRaises(tool_name)
    THEN [raised |-> TRUE, invoked |-> FALSE, result |-> ErrorResult("", "")]
    ELSE IF tool_name.t # "str" \/ tool_name.v \notin DOMAIN TOOL_FUNCTIONS
    THEN [raised |-> FALSE, invoked |-> FALSE,
          result |-> ErrorResult("not_found", tool_name.v)]
    ELSE IF arguments.t # "dict" \/ CallRaises(tool_name.v, arguments.m)
    THEN [raised |-> TRUE, invoked |-> TRUE, result |-> ErrorResult("", "")]
    ELSE [raised |-> FALSE, invoked |-> TRUE,
          result |-> ToolResult(tool_name.v, arguments.m)]

\* a dispatcher that calls the registry without looking the name up first
_execute_tool_no_lookup(tool_name, arguments) ==
    IF LookupRaises(tool_name)
    THEN [raised |-> TRUE, invoked |-> FALSE, result |-> ErrorResult("", "")]
    ELSE IF tool_name.t # "str" \/ tool_name.v \notin DOMAIN TOOL_FUNCTIONS
    THEN [raised |-> TRUE, invoked |-> FALSE, result |-> ErrorResult("", "")]
    ELSE IF arguments.t # "dict" \/ CallRaises(tool_name.v, arguments.m)
    THEN [raised |-> FALSE, invoked |-> TRUE,
          result |-> ErrorResult("exception", tool_name.v)]
    ELSE [raised |-> FALSE, invoked |-> TRUE,
          result |-> ToolResult(tool_name.v, arguments.m)]

\* raised: an exception leaves _execute_tool; invoked: the registered
\* callable was called; result: the serialized result returned
_execute_tool(tool_name, arguments) ==
    IF LookupRaises(tool_name)
    THEN [raised |-> TRUE, invoked |-> FALSE, result |-> ErrorResult("", "")]
    ELSE IF tool_name.t # "str" \/ tool_name.v \notin DOMAIN TOOL_FUNCTIONS
    THEN [raised |-> FALSE, invoked |-> FALSE,
          result |-> ErrorResult("not_found", tool_name.v)]
    ELSE IF arguments.t # "dict" \/ CallRaises(tool_name.v, arguments.m)
    THEN [raised |-> FALSE, invoked |-> TRUE,
          result |-> ErrorResult("exception", tool_name.v)]
    ELSE [raised |-> FALSE, invoked |-> TRUE,
          result |-> ToolResult(tool_name.v, arguments.m)]

\* ------------------------------------------------------------------------
\* Input sanitizer
\* ------------------------------------------------------------------------
\* Query symbols: "q" is an ordinary character, "ws" whitespace, "BT" a
\* backtick, "AP" an apostrophe, "INJ" an injection phrase such as "ignore
\* previous instructions"; the fake tags are spelled with three symbols
\* each, "sys"/"SYS" being the two letter cases of one word.
default_max_length == 5000

\* str.lower() of one symbol: of a word that is written in two letter
\* cases, of a single letter
LowerSym(c) ==
    CASE c = "SYS" -> "sys"
      [] c = "Leads" -> "leads"
      [] c = "Large" -> "large"
      [] c = "I" -> "i"
      [] c = "T" -> "t"
      [] c = "S" -> "s"
      [] c = "B" -> "b"
      [] OTHER -> c

\* str.lower()
Lower(s) == [i \in 1..Len(s) |-> LowerSym(s[i])]

\* <system>, </system>, <admin>, </admin>, [INST], [/INST], lower-cased
dangerous_tags ==
    << << "<", "sys", ">" >>, << "</", "sys", ">" >>,
       << "<", "adm", ">" >>, << "</", "adm", ">" >>,
       << "[", "inst", "]" >>, << "[/", "inst", "]" >> >>

\* INJECTION_REGEX.findall(user_input) is non-empty: an injection phrase, or
\* the pattern <\s*system\s*>
RECURSIVE SystemTagAt(_, _, _)
SystemTagAt(s, i, stage) ==
    IF i > Len(s) THEN FALSE
    ELSE IF s[i] = "ws" THEN SystemTagAt(s, i + 1, stage)
    ELSE IF stage = 1 THEN LowerSym(s[i]) = "sys" /\ SystemTagAt(s, i + 1, 2)
    ELSE s[i] = ">"

InjectionFound(s) ==
    \/ FindFrom(s, "INJ", 1) # 0
    \/ \E i \in 1..Len(s) : s[i] = "<" /\ SystemTagAt(s, i + 1, 1)

\* re.sub(re.escape(sub), rep, s, flags=re.IGNORECASE) and str.replace: one
\* pass from the left over the non-overlapping occurrences
RECURSIVE ReplaceAll(_, _, _)
ReplaceAll(s, sub, rep) ==
    IF s = << >> THEN << >>
    ELSE IF OccursAt(Lower(s), sub, 1)
         THEN rep \o ReplaceAll(SubSeq(s, Len(sub) + 1, Len(s)), sub, rep)
         ELSE << Head(s) >> \o ReplaceAll(Tail(s), sub, rep)

\* the loop over dangerous_tags, from tag k on
RECURSIVE RemoveTags(_, _, _)
RemoveTags(s, w, k) ==
    IF k > Len(dangerous_tags) THEN [text |-> s, warnings |-> w]
    ELSE IF Contains(Lower(s), dangerous_tags[k])
         THEN RemoveTags(ReplaceAll(s, dangerous_tags[k], << >>),
                         Append(w, [w |-> "removed_tag", k |-> k]), k + 1)
         ELSE RemoveTags(s, w, k + 1)

\* a slice that keeps one symbol more
TruncateOneMore(s, n) == SubSeq(s, 1, n + 1)

\* user_input[:max_length], taken when len(user_input) > max_length: the
\* first n symbols, or for a negative n all but the last -n
Truncate(s, n) ==
    IF n >= 0 THEN SubSeq(s, 1, n)
    ELSE IF Len(s) + n >= 0 THEN SubSeq(s, 1, Len(s) + n)
    ELSE << >>

\* a sanitizer that returns the text without the final strip()
sanitize_input_no_strip(user_input, max_len) ==
    LET cut == IF Len(user_input) > max_len
               THEN Truncate(user_input, max_len) ELSE user_input
        w1  == IF Len(user_input) > max_len
               THEN << [w |-> "truncated", k |-> max_len] >> ELSE << >>
        w2  == IF InjectionFound(cut)
               THEN Append(w1, [w |-> "injection", k |-> 0]) ELSE w1
        r   == RemoveTags(cut, w2, 1)
    IN  [text |-> ReplaceAll(r.text, << "BT", "BT", "BT" >>, << "AP", "AP", "AP" >>),
         warnings |-> r.warnings]

\* a sanitizer that blocks the request on a detection: it returns no text
sanitize_input_blocking(user_input, max_len) ==
    LET r == sanitize_input_no_strip(user_input, max_len)
    IN  [text |-> IF \E k \in 1..Len(r.warnings) : r.warnings[k].w = "injection"
                  THEN << >> ELSE Strip(r.text),
         warnings |-> r.warnings]

\* a sanitizer that replaces the fences before it removes the tags
sanitize_input_fences_first(user_input, max_len) ==
    LET cut == IF Len(user_input) > max_len
               THEN Truncate(user_input, max_len) ELSE user_input
        w1  == IF Len(user_input) > max_len
               THEN << [w |-> "truncated", k |-> max_len] >> ELSE << >>
        w2  == IF InjectionFound(cut)
               THEN Append(w1, [w |-> "injection", k |-> 0]) ELSE w1
        r   == RemoveTags(ReplaceAll(cut, << "BT", "BT", "BT" >>, << "AP", "AP", "AP" >>),
                          w2, 1)
    IN  [text |-> Strip(r.text), warnings |-> r.warnings]

sanitize_input(user_input, max_len) ==
    LET cut == IF Len(user_input) > max_len
               THEN Truncate(user_input, max_len) ELSE user_input
        w1  == IF Len(user_input) > max_len
               THEN << [w |-> "truncated", k |-> max_len] >> ELSE << >>
        w2  == IF InjectionFound(cut)
               THEN Append(w1, [w |-> "injection", k |-> 0]) ELSE w1
        r   == RemoveTags(cut, w2, 1)
    IN  [text |-> Strip(ReplaceAll(r.text, << "BT", "BT", "BT" >>, << "AP", "AP", "AP" >>)),
         warnings |-> r.warnings]

\* ------------------------------------------------------------------------
\* The tool estimate_budget
\* ------------------------------------------------------------------------
\* An industry is a text: the keys "IT", "saas" and "b2b" are spelled letter
\* by letter, every other key of the table is one symbol.  A goal and a
\* company size are one symbol each ("startup", "small", "medium", "large"
\* stand for the Russian words of the code).  A multiplier is kept in tenths.
\* the rows of industry_cac, in the order of the dict
industry_cac ==
    << [key |-> << "I", "T" >>,          min |-> 10000, avg |-> 15000, max |-> 25000],
       [key |-> << "retail" >>,          min |-> 300,   avg |-> 500,   max |-> 1000],
       [key |-> << "finance" >>,         min |-> 15000, avg |-> 25000, max |-> 50000],
       [key |-> << "education" >>,       min |-> 2000,  avg |-> 5000,  max |-> 10000],
       [key |-> << "edtech" >>,          min |-> 2000,  avg |-> 5000,  max |-> 10000],
       [key |-> << "s", "a", "a", "s" >>, min |-> 8000, avg |-> 15000, max |-> 30000],
       [key |-> << "b", "2", "b" >>,     min |-> 10000, avg |-> 20000, max |-> 40000],
       [key |-> << "e-commerce" >>,      min |-> 200,   avg |-> 400,   max |-> 800],
       [key |-> << "beauty" >>,          min |-> 500,   avg |-> 800,   max |-> 1500],
       [key |-> << "barbershop" >>,      min |-> 300,   avg |-> 500,   max |-> 1000],
       [key |-> << "salon" >>,           min |-> 500,   avg |-> 800,   max |-> 1500],
       [key |-> << "medicine" >>,        min |-> 2000,  avg |-> 3000,  max |-> 5000],
       [key |-> << "dentistry" >>,       min |-> 3000,  avg |-> 4000,  max |-> 6000],
       [key |-> << "fitness" >>,         min |-> 1000,  avg |-> 1500,  max |-> 2500],
       [key |-> << "restaurant" >>,      min |-> 200,   avg |-> 300,   max |-> 500],
       [key |-> << "cafe" >>,            min |-> 100,   avg |-> 150,   max |-> 300],
       [key |-> << "car_service" >>,     min |-> 1500,  avg |-> 2000,  max |-> 3000],
       [key |-> << "real_estate" >>,     min |-> 30000, avg |-> 50000, max |-> 100000],
       [key |-> << "flowers" >>,         min |-> 300,   avg |-> 400,   max |-> 600],
       [key |-> << "delivery" >>,        min |-> 150,   avg |-> 200,   max |-> 350],
       [key |-> << "cleaning" >>,        min |-> 800,   avg |-> 1000,  max |-> 1500],
       [key |-> << "legal" >>,           min |-> 5000,  avg |-> 8000,  max |-> 15000],
       [key |-> << "tourism" >>,         min |-> 1000,  avg |-> 2000,  max |-> 4000] >>

\* the row used when no key matches
default_cac == [key |-> << >>, min |-> 3000, avg |-> 7000, max |-> 15000]

\* goal_multipliers.get(goal.lower(), 1.0), in tenths
goal_multipliers(goal) ==
    CASE LowerSym(goal) = "awareness" -> 5
      [] LowerSym(goal) = "leads" -> 10
      [] LowerSym(goal) = "sales" -> 13
      [] LowerSym(goal) = "retention" -> 4
      [] OTHER -> 10

\* size_multipliers.get(company_size.lower(), 1.0), in tenths
size_multipliers(company_size) ==
    CASE LowerSym(company_size) = "startup" -> 5
      [] LowerSym(company_size) = "small" -> 7
      [] LowerSym(company_size) = "medium" -> 10
      [] LowerSym(company_size) = "large" -> 20
      [] OTHER -> 10

\* base_budgets.get(company_size.lower(), base_budgets["medium"])
base_budgets(company_size) ==
    CASE LowerSym(company_size) = "startup" -> [min |-> 50000, optimal |-> 150000, max |-> 300000]
      [] LowerSym(company_size) = "small" -> [min |-> 100000, optimal |-> 300000, max |-> 500000]
      [] LowerSym(company_size) = "large" -> [min |-> 1000000, optimal |-> 3000000, max |-> 10000000]
      [] OTHER -> [min |-> 300000, optimal |-> 700000, max |-> 1500000]

\* a lookup that compares the key in lower case too
CacRowIgnoringCase(industry) ==
    IF \E k \in 1..Len(industry_cac) : Contains(Lower(industry), Lower(industry_cac[k].key))
    THEN industry_cac[CHOOSE k \in 1..Len(industry_cac) :
                         /\ Contains(Lower(industry), Lower(industry_cac[k].key))
                         /\ \A j \in 1..(k - 1) :
                               ~Contains(Lower(industry), Lower(industry_cac[j].key))]
    ELSE default_cac

\* the loop `for key in industry_cac: if key in industry_lower`: the first
\* row whose key, as written, is a substring of the lower-cased industry
CacRow(industry) ==
    IF \E k \in 1..Len(industry_cac) : Contains(Lower(industry), industry_cac[k].key)
    THEN industry_cac[CHOOSE k \in 1..Len(industry_cac) :
                         /\ Contains(Lower(industry), industry_cac[k].key)
                         /\ \A j \in 1..(k - 1) :
                               ~Contains(Lower(industry), industry_cac[j].key)]
    ELSE default_cac

\* target_leads: None, or a number
NoLeads == [some |-> FALSE, n |-> 0]
Leads(n) == [some |-> TRUE, n |-> n]

recommended_period(min_budget) ==
    IF min_budget < 100000 THEN "1 month"
    ELSE IF min_budget < 300000 THEN "1-2 months"
    ELSE IF min_budget < 700000 THEN "quarter"
    ELSE "quarter or half-year"

\* the mapping estimate_budget returns, without its insight sentence
estimate_budget(goal, industry, target_leads, company_size) ==
    LET cac_data  == CacRow(industry)
        goal_mult == goal_multipliers(goal)
        size_mult == size_multipliers(company_size)
        base      == base_budgets(company_size)
        byLeads   == target_leads.some /\ target_leads.n # 0
        min_budget ==
            IF byLeads THEN (target_leads.n * cac_data.min * goal_mult * size_mult) \div 100
            ELSE (base.min * goal_mult) \div 10
        optimal_budget ==
            IF byLeads THEN (target_leads.n * cac_data.avg * goal_mult * size_mult) \div 100
            ELSE (base.optimal * goal_mult) \div 10
        max_budget ==
            IF byLeads THEN (target_leads.n * cac_data.max * goal_mult * size_mult) \div 100
            ELSE (base.max * goal_mult) \div 10
    IN  [goal |-> goal, industry |-> industry, company_size |-> company_size,
         target_leads |-> target_leads, estimated_cac |-> cac_data.avg,
         budget_recommendations |->
             [minimum |-> min_budget, optimal |-> optimal_budget, maximum |-> max_budget],
         recommended_period |-> recommended_period(min_budget)]

\* ------------------------------------------------------------------------
\* The lookup tools analyze_target_audience, analyze_seasonality and
\* competitor_benchmark
\* ------------------------------------------------------------------------
\* The keys are spelled as in industry_cac; a key of two words has the space
\* "sp" between them.  A row keeps the age range and the lengths of the lists
\* of an audience record, the months of a seasonality record (one symbol
\* each), the numbers of a benchmark record (the ratio in tenths).
\* the rows of industry_data, in the order of the dict
industry_data ==
    << [key |-> << "I", "T" >>, age_range |-> "25-45", segments |-> 4, channels |-> 4],
       [key |-> << "retail" >>, age_range |-> "30-55", segments |-> 3, channels |-> 3],
       [key |-> << "finance" >>, age_range |-> "30-55", segments |-> 3, channels |-> 3],
       [key |-> << "beauty" >>, age_range |-> "20-50", segments |-> 4, channels |-> 5],
       [key |-> << "barbershop" >>, age_range |-> "18-45", segments |-> 4, channels |-> 5],
       [key |-> << "medicine" >>, age_range |-> "25-65", segments |-> 4, channels |-> 4],
       [key |-> << "dentistry" >>, age_range |-> "20-60", segments |-> 3, channels |-> 4],
       [key |-> << "fitness" >>, age_range |-> "18-45", segments |-> 4, channels |-> 5],
       [key |-> << "restaurant" >>, age_range |-> "22-50", segments |-> 4, channels |-> 5],
       [key |-> << "cafe" >>, age_range |-> "18-40", segments |-> 4, channels |-> 4],
       [key |-> << "car_service" >>, age_range |-> "25-60", segments |-> 3, channels |-> 5],
       [key |-> << "real_estate" >>, age_range |-> "25-55", segments |-> 4, channels |-> 5],
       [key |-> << "education" >>, age_range |-> "16-45", segments |-> 3, channels |-> 5],
       [key |-> << "delivery", "sp", "food" >>, age_range |-> "20-45", segments |-> 4, channels |-> 4],
       [key |-> << "flowers" >>, age_range |-> "22-55", segments |-> 3, channels |-> 4],
       [key |-> << "legal", "sp", "services" >>, age_range |-> "30-60", segments |-> 3, channels |-> 4],
       [key |-> << "cleaning" >>, age_range |-> "25-55", segments |-> 4, channels |-> 4],
       [key |-> << "general" >>, age_range |-> "18-65", segments |-> 1, channels |-> 3] >>

\* industry_data["general"]
general_audience ==
    industry_data[CHOOSE k \in 1..Len(industry_data) : industry_data[k].key = << "general" >>]

\* table.get(key, default)
DictGet(table, key, default) ==
    IF \E k \in 1..Len(table) : table[k].key = key
    THEN table[CHOOSE k \in 1..Len(table) : table[k].key = key]
    ELSE default

\* the mapping analyze_target_audience returns, without its insight sentence
analyze_target_audience(product_or_service, industry) ==
    LET data == DictGet(industry_data, Lower(industry), general_audience)
    IN  [product |-> product_or_service, industry |-> industry,
         target_segments |-> data.segments, age_range |-> data.age_range,
         recommended_channels |-> data.channels]

\* the rows of seasonality_data, in the order of the dict
seasonality_data ==
    << [key |-> << "retail" >>, peak_months |-> << "nov", "dec", "mar" >>,
        low_months |-> << "jan", "feb", "jul" >>],
       [key |-> << "I", "T" >>, peak_months |-> << "sep", "oct", "mar" >>,
        low_months |-> << "jul", "aug", "jan" >>],
       [key |-> << "tourism" >>, peak_months |-> << "jun", "jul", "aug", "dec" >>,
        low_months |-> << "nov", "mar", "apr" >>],
       [key |-> << "education" >>, peak_months |-> << "aug", "sep", "jan" >>,
        low_months |-> << "jun", "jul", "dec" >>],
       [key |-> << "beauty" >>, peak_months |-> << "mar", "apr", "may", "dec" >>,
        low_months |-> << "jan", "feb", "aug" >>],
       [key |-> << "barbershop" >>, peak_months |-> << "dec", "may", "sep" >>,
        low_months |-> << "jan", "feb", "jul" >>],
       [key |-> << "medicine" >>, peak_months |-> << "sep", "oct", "mar", "apr" >>,
        low_months |-> << "jul", "aug", "jan" >>],
       [key |-> << "dentistry" >>, peak_months |-> << "apr", "may", "oct", "nov" >>,
        low_months |-> << "jul", "aug", "jan" >>],
       [key |-> << "fitness" >>, peak_months |-> << "jan", "sep", "mar", "apr" >>,
        low_months |-> << "jul", "aug", "dec" >>],
       [key |-> << "restaurant" >>, peak_months |-> << "dec", "feb", "mar", "may" >>,
        low_months |-> << "jan", "jul", "aug" >>],
       [key |-> << "cafe" >>, peak_months |-> << "sep", "oct", "nov", "mar" >>,
        low_months |-> << "jul", "aug", "jan" >>],
       [key |-> << "car_service" >>, peak_months |-> << "mar", "apr", "oct", "nov" >>,
        low_months |-> << "jan", "jul", "aug" >>],
       [key |-> << "real_estate" >>, peak_months |-> << "mar", "apr", "sep", "oct" >>,
        low_months |-> << "jan", "jul", "aug", "dec" >>],
       [key |-> << "flowers" >>, peak_months |-> << "feb", "mar", "sep" >>,
        low_months |-> << "jan", "jul", "nov" >>],
       [key |-> << "delivery", "sp", "food" >>, peak_months |-> << "nov", "dec", "feb", "mar" >>,
        low_months |-> << "jun", "jul", "aug" >>],
       [key |-> << "cleaning" >>, peak_months |-> << "apr", "may", "dec" >>,
        low_months |-> << "jan", "feb", "jul" >>] >>

\* the record used when the key is absent
default_seasonality ==
    [key |-> << >>, peak_months |-> << "mar", "sep", "nov" >>,
     low_months |-> << "jan", "jul" >>]

\* `current_month.lower() in [m.lower() for m in months]`
MonthIn(current_month, months) ==
    \E k \in 1..Len(months) : LowerSym(months[k]) = LowerSym(current_month)

\* the mapping analyze_seasonality returns, without its events and its
\* recommendation sentence
analyze_seasonality(industry, current_month) ==
    LET data == DictGet(seasonality_data, Lower(industry), default_seasonality)
    IN  [industry |-> industry, current_month |-> current_month,
         is_peak_season |-> MonthIn(current_month, data.peak_months),
         is_low_season |-> MonthIn(current_month, data.low_months),
         peak_months |-> data.peak_months, low_months |-> data.low_months]

\* the rows of benchmarks, in the order of the dict
benchmarks ==
    << [key |-> << "I", "T" >>, avg_marketing_budget_percent |-> 12, avg_cac |-> 15000,
        avg_ltv_cac_ratio |-> 35],
       [key |-> << "retail" >>, avg_marketing_budget_percent |-> 8, avg_cac |-> 500,
        avg_ltv_cac_ratio |-> 40],
       [key |-> << "finance" >>, avg_marketing_budget_percent |-> 15, avg_cac |-> 25000,
        avg_ltv_cac_ratio |-> 50],
       [key |-> << "beauty" >>, avg_marketing_budget_percent |-> 10, avg_cac |-> 800,
        avg_ltv_cac_ratio |-> 60],
       [key |-> << "barbershop" >>, avg_marketing_budget_percent |-> 8, avg_cac |-> 500,
        avg_ltv_cac_ratio |-> 80],
       [key |-> << "medicine" >>, avg_marketing_budget_percent |-> 6, avg_cac |-> 3000,
        avg_ltv_cac_ratio |-> 50],
       [key |-> << "dentistry" >>, avg_marketing_budget_percent |-> 8, avg_cac |-> 4000,
        avg_ltv_cac_ratio |-> 40],
       [key |-> << "fitness" >>, avg_marketing_budget_percent |-> 12, avg_cac |-> 1500,
        avg_ltv_cac_ratio |-> 30],
       [key |-> << "restaurant" >>, avg_marketing_budget_percent |-> 5, avg_cac |-> 300,
        avg_ltv_cac_ratio |-> 50],
       [key |-> << "cafe" >>, avg_marketing_budget_percent |-> 4, avg_cac |-> 150,
        avg_ltv_cac_ratio |-> 60],
       [key |-> << "car_service" >>, avg_marketing_budget_percent |-> 5, avg_cac |-> 2000,
        avg_ltv_cac_ratio |-> 40],
       [key |-> << "real_estate" >>, avg_marketing_budget_percent |-> 3, avg_cac |-> 50000,
        avg_ltv_cac_ratio |-> 20],
       [key |-> << "education" >>, avg_marketing_budget_percent |-> 15, avg_cac |-> 5000,
        avg_ltv_cac_ratio |-> 30],
       [key |-> << "flowers" >>, avg_marketing_budget_percent |-> 10, avg_cac |-> 400,
        avg_ltv_cac_ratio |-> 30],
       [key |-> << "delivery", "sp", "food" >>, avg_marketing_budget_percent |-> 20, avg_cac |-> 200,
        avg_ltv_cac_ratio |-> 40],
       [key |-> << "cleaning" >>, avg_marketing_budget_percent |-> 8, avg_cac |-> 1000,
        avg_ltv_cac_ratio |-> 50],
       [key |-> << "legal", "sp", "services" >>, avg_marketing_budget_percent |-> 10, avg_cac |-> 8000,
        avg_ltv_cac_ratio |-> 40] >>

\* the record used when no key matches
default_benchmark ==
    [key |-> << >>, avg_marketing_budget_percent |-> 10, avg_cac |-> 5000,
     avg_ltv_cac_ratio |-> 30]

\* `key in industry_lower or industry_lower in key`
BenchmarkKeyMatches(key, industry_lower) ==
    Contains(industry_lower, key) \/ Contains(key, industry_lower)

\* the loop over benchmarks: the first row whose key, as written, matches
\* the lower-cased industry
BenchmarkRow(industry) ==
    IF \E k \in 1..Len(benchmarks) : BenchmarkKeyMatches(benchmarks[k].key, Lower(industry))
    THEN benchmarks[CHOOSE k \in 1..Len(benchmarks) :
                       /\ BenchmarkKeyMatches(benchmarks[k].key, Lower(industry))
                       /\ \A j \in 1..(k - 1) :
                             ~BenchmarkKeyMatches(benchmarks[j].key, Lower(industry))]
    ELSE default_benchmark

\* {"small": 0.7, "medium": 1.0, "large": 1.5}.get(company_size.lower(), 1.0),
\* in tenths
benchmark_size_multiplier(company_size) ==
    CASE LowerSym(company_size) = "small" -> 7
      [] LowerSym(company_size) = "medium" -> 10
      [] LowerSym(company_size) = "large" -> 15
      [] OTHER -> 10

\* the mapping competitor_benchmark returns, without its channels and its
\* insight sentence
competitor_benchmark(industry, company_size) ==
    LET data == BenchmarkRow(industry)
    IN  [industry |-> industry, company_size |-> company_size,
         avg_marketing_budget_percent_of_revenue |-> data.avg_marketing_budget_percent,
         avg_customer_acquisition_cost |->
             (data.avg_cac * benchmark_size_multiplier(company_size)) \div 10,
         target_ltv_cac_ratio |-> data.avg_ltv_cac_ratio]

\* ------------------------------------------------------------------------
\* The LLM client: _call_llm's handling of the outcome of one request
\* ------------------------------------------------------------------------
\* def _call_llm(self, messages, max_retries: int = 5)
default_max_retries == 5

\* the outcomes of requests.post(...), raise_for_status() and the reading of
\* the body: a completion with its content, an HTTPError with the status of
\* the response, a requests.exceptions.Timeout, any other exception
Completion(content) == [k |-> "ok", status |-> 200, content |-> content]
HttpError(status) == [k |-> "http", status |-> status, content |-> << >>]
TimedOut == [k |-> "timeout", status |-> 0, content |-> << >>]
OtherException(what) == [k |-> what, status |-> 0, content |-> << >>]

\* wait_time = (2 ** attempt) + 1
RateLimitWait(attempt) == 2 ^ attempt + 1

\* the wait of the Timeout handler, by the formula of the 429 handler
TimeoutWaitExponential(attempt) == 2 ^ attempt + 1

\* wait_time = 5
TimeoutWait(attempt) == 5

\* the outcomes after which the loop sleeps and continues, every HTTPError
\* among them
RetryableAnyHttpError(o) == o.k \in {"http", "timeout"}

\* the outcomes after which the loop sleeps and continues: an HTTPError
\* with status 429, and a Timeout
Retryable(o) == (o.k = "http" /\ o.status = 429) \/ o.k = "timeout"

\* one pass of the loop body on outcome o: whether the loop continues, the
\* seconds slept (0: no sleep), and the value returned when it does not
HandleOutcome(o, attempt) ==
    IF o.k = "ok"
    THEN [retry |-> FALSE, wait |-> 0, value |-> [ok |-> TRUE, text |-> o.content]]
    ELSE IF Retryable(o)
    THEN [retry |-> TRUE,
          wait |-> IF o.k = "http" THEN RateLimitWait(attempt) ELSE TimeoutWait(attempt),
          value |-> [ok |-> FALSE, text |-> << >>]]
    ELSE [retry |-> FALSE, wait |-> 0, value |-> [ok |-> FALSE, text |-> << >>]]

\* for attempt in range(max_retries), one pass more
HasNextAttemptLe(attempt, max_retries) == attempt <= max_retries

\* for attempt in range(max_retries): there is a pass for this value
HasNextAttempt(attempt, max_retries) == attempt < max_retries

\* ------------------------------------------------------------------------
\* Inputs of a run: the user's query and the LLM client's results
\* ------------------------------------------------------------------------
\* queries a caller submits: blank ones, ones that hold only fake tags, and
\* ones with text (plain; with whitespace, an injection phrase and a tag)
Queries ==
    { << >>, << "ws" >>,
      << "<", "sys", ">" >>, << "ws", "[/", "inst", "]", "<", "SYS", ">", "ws" >>,
      << "q" >>, << "ws", "INJ", "<", "adm", ">", "q", "ws" >> }

\* texts after which the run goes on: without tool call (prose, invalid
\* JSON, a block without the keys) and with tool calls (one call; two calls,
\* the second of an unknown tool; a call that lacks a required argument; an
\* unclosed trailing block)
ContinuingResponses ==
    { << "txt" >>,
      << "OPEN", "J_bad", "CLOSE", "OPEN", "J_nokeys", "CLOSE" >>,
      << "txt", "OPEN", "ws", "J_roi", "ws", "CLOSE" >>,
      << "OPEN", "J_aud", "CLOSE", "txt", "OPEN", "J_unknown", "CLOSE" >>,
      << "OPEN", "J_missing", "CLOSE" >>,
      << "txt", "OPEN", "J_roi", "ws" >> }

\* texts that end the run: the empty string, final answers (also an empty
\* one, and one behind two markers), dangerous texts (alone, with a marker,
\* with a tool call), a marker next to a tool call
EndingResponses ==
    { << >>,
      << "MARK", "txt" >>, << "MARK" >>, << "txt", "MARK", "ws" >>,
      << "txt", "MARK", "txt", "MARK", "ws", "txt", "ws" >>,
      << "MARK", "OPEN", "J_roi", "CLOSE" >>,
      << "D_os" >>, << "txt", "D_eval", "MARK", "txt" >>,
      << "OPEN", "J_roi", "CLOSE", "D_eval", "D_os" >> }

\* texts with a block that is valid JSON of an unexpected shape, each in a
\* single block
OddBodies ==
    { "J_num", "J_null", "J_str", "J_arr", "J_args_list", "J_args_null",
      "J_name_list", "J_name_num", "J_unknown_str", "J_badtype" }

OddResponses ==
    { << "OPEN", b, "CLOSE" >> : b \in OddBodies }
    \cup { << "OPEN", "J_roi", "CLOSE", "OPEN", "J_args_list", "CLOSE" >> }

Responses == ContinuingResponses \cup EndingResponses \cup OddResponses

\* what _call_llm returns: None, or the content of the completion
None == [ok |-> FALSE, text |-> << >>]
LLMResults == { None } \cup { [ok |-> TRUE, text |-> r] : r \in Responses }

\* `response is None`
FalsyNoneOnly(r) == ~r.ok

\* `not response`
Falsy(r) == ~r.ok \/ r.text = << >>

\* ------------------------------------------------------------------------
\* The texts the agent and the relay produce
\* ------------------------------------------------------------------------
Line(k, n, name) == [k |-> k, n |-> n, name |-> name]
Msg(role, text, results, reminder) ==
    [role |-> role, text |-> text, results |-> results, reminder |-> reminder]

MSG_EMPTY_QUERY == << "MSG_EMPTY_QUERY" >>
MSG_LLM_FAIL == << "MSG_LLM_FAIL" >>
MSG_BLOCKED == << "MSG_BLOCKED" >>
MSG_LIMIT == << "MSG_LIMIT" >>

reminder_threshold == 4

\* the reminder that closes the tool-results message of an iteration
Reminder(iter) == IF iter >= reminder_threshold THEN "urgent" ELSE "normal"

\* while iteration < self.max_iterations, tested one iteration too late
LoopConditionLe(iter, max) == iter <= max

\* while iteration < self.max_iterations
LoopCondition(iter, max) == iter < max

\* the checks run_stream applies to the result of _call_llm, with a failed
\* call handed on to the later checks instead of ending the run
ClassifyFailureGoesOn(r) ==
    IF ~check_response_safety(r.text).safe THEN "safety"
    ELSE IF HasMarker(r.text) THEN "final"
    ELSE "parse"

\* the same checks with the tool calls looked for before the marker
ClassifyToolCallsFirst(r) ==
    IF Falsy(r) THEN "llm_failure"
    ELSE IF ~check_response_safety(r.text).safe THEN "safety"
    ELSE IF _parse_tool_calls(r.text).calls # << >> THEN "parse"
    ELSE IF HasMarker(r.text) THEN "final"
    ELSE "parse"

\* the same checks with the marker looked for before the safety filter
ClassifyMarkerFirst(r) ==
    IF Falsy(r) THEN "llm_failure"
    ELSE IF HasMarker(r.text) THEN "final"
    ELSE IF ~check_response_safety(r.text).safe THEN "safety"
    ELSE "parse"

\* the same checks with the safety filter applied to final answers only
ClassifySafetyOfFinalOnly(r) ==
    IF Falsy(r) THEN "llm_failure"
    ELSE IF HasMarker(r.text)
    THEN (IF ~check_response_safety(r.text).safe THEN "safety" ELSE "final")
    ELSE "parse"

\* the same checks with the tool-call parser asked first of all texts
ClassifyParserFirst(r) ==
    IF Falsy(r) THEN "llm_failure"
    ELSE IF _parse_tool_calls(r.text).calls # << >> THEN "parse"
    ELSE IF ~check_response_safety(r.text).safe THEN "safety"
    ELSE IF HasMarker(r.text) THEN "final"
    ELSE "parse"

\* the checks run_stream applies to the result of _call_llm, in their order:
\* failure, safety, final-answer marker, and only then the tool-call parser
Classify(r) ==
    IF Falsy(r) THEN "llm_failure"
    ELSE IF ~check_response_safety(r.text).safe THEN "safety"
    ELSE IF HasMarker(r.text) THEN "final"
    ELSE "parse"

\* run_agent's test of the raw query: not query.strip()
AppBlankQuery(query) == Strip(query) = << >>

\* run_stream's test of the sanitized query, always passed
EmptySanitizedNever(sanitized_query) == FALSE

\* run_stream's test of the sanitized query: not sanitized_query.strip()
EmptySanitized(sanitized_query) == Strip(sanitized_query) = << >>

\* the pair run_agent yields for a pair of run_stream
Relay(progress, result) ==
    IF result # << >>
    THEN [progress |-> progress,
          final |-> << "APP_HEADER" >> \o result \o << "APP_FOOTER" >>,
          steps |-> Len(progress)]
    ELSE [progress |-> progress, final |-> << >>, steps |-> 0]

\* ------------------------------------------------------------------------
\* The synchronous run(): a loop over the pairs run_stream yields
\* ------------------------------------------------------------------------
\* lines[0] of progress.split("\n")
FirstLine(progress) == progress[1]

\* lines[-1] of progress.split("\n"): a progress text is the list of its
\* lines
LastLine(progress) == progress[Len(progress)]

\* the body of the for loop of run() on the k-th pair and those behind it:
\* the callback, when there is one and the progress text is not empty, is
\* called with the last line; a non-empty res becomes the result
RECURSIVE RunLoop(_, _, _, _)
RunLoop(pairs, k, progress_callback, st) ==
    IF k > Len(pairs) THEN st
    ELSE LET progress == pairs[k].progress
             res      == pairs[k].final
             calls    == IF progress_callback /\ progress # << >>
                         THEN Append(st.calls, LastLine(progress))
                         ELSE st.calls
             result   == IF res # << >> THEN res ELSE st.result
         IN  RunLoop(pairs, k + 1, progress_callback, [result |-> result, calls |-> calls])

\* run() over a run_stream that yielded `pairs` and returned: the string
\* returned and the calls of progress_callback, in their order
run(pairs, progress_callback) ==
    RunLoop(pairs, 1, progress_callback, [result |-> << >>, calls |-> << >>])

\* ------------------------------------------------------------------------
\* DebugMarketingAgent.run: the loop of the debugging subclass, which
\* overrides run() and does not go through run_stream
\* ------------------------------------------------------------------------
\* how a run of it stands: "returned" with its string, "raised" at a site,
\* or "calls_llm" when the LLM call it makes is one more than the results
\* it is given; with the messages built and the transcript of each call
DebugEnd(how, value, site, msgs, seen) ==
    [how |-> how, value |-> value, site |-> site, messages |-> msgs, seen |-> seen]

\* the for loop over tool_calls, from call k on: no test of the arguments
\* stands before _execute_tool
RECURSIVE DebugTools(_, _, _)
DebugTools(calls, k, acc) ==
    IF k > Len(calls) THEN [site |-> "", results |-> acc]
    ELSE IF calls[k].kind # "dict" THEN [site |-> "tool_call_subscript", results |-> acc]
    ELSE LET e == _execute_tool(calls[k].name, calls[k].args)
         IN  IF e.raised THEN [site |-> "execute_tool", results |-> acc]
             ELSE DebugTools(calls, k + 1, Append(acc, e.result))

\* the while loop, with the counter at iter, the transcript msgs, and the
\* results of the LLM calls to come
RECURSIVE DebugLoop(_, _, _, _, _)
DebugLoop(results, max_iter, iter, msgs, seen) ==
    IF ~LoopCondition(iter, max_iter)
    THEN DebugEnd("returned", MSG_LIMIT, "", msgs, seen)
    ELSE IF results = << >>
    THEN DebugEnd("calls_llm", << >>, "", msgs, Append(seen, msgs))
    ELSE LET r    == Head(results)
             now  == Append(seen, msgs)
             p    == _parse_tool_calls(r.text)
             t    == DebugTools(p.calls, 1, << >>)
         IN  IF Falsy(r) THEN DebugEnd("returned", MSG_LLM_FAIL, "", msgs, now)
             ELSE IF HasMarker(r.text)
             THEN DebugEnd("returned", FinalAnswer(r.text), "", msgs, now)
             ELSE IF p.raised THEN DebugEnd("raised", << >>, "parse_membership", msgs, now)
             ELSE IF p.calls = << >>
             THEN DebugLoop(Tail(results), max_iter, iter + 1,
                            msgs \o << Msg("assistant", r.text, << >>, ""),
                                       Msg("user", << "NUDGE" >>, << >>, "") >>,
                            now)
             ELSE IF t.site # "" THEN DebugEnd("raised", << >>, t.site, msgs, now)
             ELSE DebugLoop(Tail(results), max_iter, iter + 1,
                            msgs \o << Msg("assistant", r.text, << >>, ""),
                                       Msg("user", << "TOOL_RESULTS" >>, t.results,
                                           Reminder(iter + 1)) >>,
                            now)

\* DebugMarketingAgent(max_iterations=max_iter).run(query), the LLM calls
\* coming to `results` in their order
DebugRun(query, results, max_iter) ==
    DebugLoop(results, max_iter, 0,
              << Msg("system", << "SYSTEM_PROMPT" >>, << >>, ""),
                 Msg("user", query, << >>, "") >>,
              << >>)

\* the pair run_agent yields when run_stream raises: both carry str(e)
AppError(site) ==
    [progress |-> << Line("app_error", 0, [t |-> "exc", v |-> site]) >>,
     final |-> << "APP_ERROR", site >>, steps |-> 0]

\* ------------------------------------------------------------------------
\* State
\* ------------------------------------------------------------------------
VARIABLES
    driver,          \* who iterates run_stream: "direct" (run, a test) or "app" (run_agent)
    max_iterations,  \* self.max_iterations
    user_query,      \* the query submitted
    pc,              \* where the generator is suspended
    outcome,         \* how the run ended, "none" while it has not
    crash,           \* the place an uncaught exception left run_stream from, "" if none
    iteration,       \* run_stream's local iteration
    messages,        \* run_stream's local messages: the transcript
    progress_log,    \* run_stream's local progress_log
    response,        \* the LLM result of the current iteration
    tool_calls,      \* the tool calls parsed in the current iteration
    tc_idx,          \* the position of the for loop over tool_calls
    tool_results,    \* the tool results collected in the current iteration
    stream,          \* history: the pairs run_stream has yielded
    app_pc,          \* where run_agent stands
    app_stream,      \* history: the pairs run_agent has yielded
    llm_results,     \* history: what each call of _call_llm returned
    dispatched,      \* history: the calls of _execute_tool and what came of each
    invoked,         \* history: the registered callables that were called
    suspended,       \* the frame of a second generator of run_stream on the
                     \* same agent, suspended at a yield; NoFrame if there is none
    max_length,      \* sanitize_input's parameter max_length
    sanitized,       \* what sanitize_input returned, NotCalled before the call
    max_retries,     \* _call_llm's parameter max_retries
    attempt,         \* _call_llm's loop variable attempt
    requests,        \* history: the outcome of each request _call_llm sent
    sleeps           \* history: the seconds of each time.sleep of _call_llm

vars == << driver, max_iterations, user_query, pc, outcome, crash, iteration,
           messages, progress_log, response, tool_calls, tc_idx, tool_results,
           stream, app_pc, app_stream, llm_results, dispatched, invoked,
           suspended, max_length, sanitized, max_retries, attempt, requests,
           sleeps >>

\* the call of _call_llm followed attempt by attempt
client == << max_retries, attempt, requests, sleeps >>

\* what no step of a run changes: the agent's configuration, the run's
\* query, the frame of the other generator, the sanitizer's call, and the
\* record of a call of _call_llm followed on its own
config == << driver, max_iterations, user_query, suspended, max_length, sanitized,
            client >>
iter_locals == << response, tool_calls, tc_idx, tool_results >>
history == << llm_results, dispatched, invoked >>

\* a single run: no second generator
NoFrame == [id |-> 0]

\* sanitize_input has not been called on its own
NotCalled == [text |-> << >>, warnings |-> << "not_called" >>]

\* _call_llm is not followed attempt by attempt
ClientIdle ==
    /\ max_retries = default_max_retries
    /\ attempt = 0
    /\ requests = << >>
    /\ sleeps = << >>

Init ==
    /\ suspended = NoFrame
    /\ driver \in {"direct", "app"}
    /\ max_iterations \in 0..MaxN
    /\ user_query \in Queries
    /\ pc = "start"
    /\ outcome = "none"
    /\ crash = ""
    /\ iteration = 0
    /\ messages = << >>
    /\ progress_log = << >>
    /\ response = None
    /\ tool_calls = << >>
    /\ tc_idx = 0
    /\ tool_results = << >>
    /\ stream = << >>
    /\ app_pc = IF driver = "app" THEN "start" ELSE "off"
    /\ app_stream = << >>
    /\ llm_results = << >>
    /\ dispatched = << >>
    /\ invoked = << >>
    /\ max_length = default_max_length
    /\ sanitized = NotCalled
    /\ ClientIdle

\* ------------------------------------------------------------------------
\* Pieces of run_stream shared by its steps
\* ------------------------------------------------------------------------
\* a dispatch to tools that keep state: the result of an invocation carries
\* the number of invocations made before it
ExecuteCounting(call) ==
    LET e == _execute_tool(call.name, call.args)
    IN  IF e.result.kind = "ok"
        THEN [e EXCEPT !.result.args = @ \cup {<<"calls", Len(invoked)>>}]
        ELSE e

\* result = self._execute_tool(tool_name, arguments): the registered
\* callables compute their mappings from their arguments and from tables
\* they build at each call; they read and write nothing else
Execute(call) == _execute_tool(call.name, call.args)

\* yield progress_log[-1], result: the pair carries the newest line only
EmitNewestLine(plog, result, npc, noutcome) ==
    /\ progress_log' = plog
    /\ stream' = Append(stream, [progress |-> << plog[Len(plog)] >>, final |-> result])
    /\ app_stream' = IF driver = "app"
                     THEN Append(app_stream, Relay(<< plog[Len(plog)] >>, result))
                     ELSE app_stream
    /\ app_pc' = app_pc
    /\ pc' = npc
    /\ outcome' = noutcome
    /\ crash' = crash

\* yield "\n".join(progress_log), result: the generator suspends at npc, and
\* run_agent, when it drives the run, yields its own pair for it
Emit(plog, result, npc, noutcome) ==
    /\ progress_log' = plog
    /\ stream' = Append(stream, [progress |-> plog, final |-> result])
    /\ app_stream' = IF driver = "app"
                     THEN Append(app_stream, Relay(plog, result))
                     ELSE app_stream
    /\ app_pc' = app_pc
    /\ pc' = npc
    /\ outcome' = noutcome
    /\ crash' = crash

\* an exception leaves run_stream: nothing is yielded; run_agent catches it,
\* yields its error pair and ends
Raise(site) ==
    /\ pc' = "crashed"
    /\ crash' = site
    /\ app_stream' = IF driver = "app"
                     THEN Append(app_stream, AppError(site))
                     ELSE app_stream
    /\ app_pc' = IF driver = "app" THEN "done" ELSE app_pc
    /\ UNCHANGED << progress_log, stream, outcome >>

\* the top of the while loop: the next iteration starts, or the limit is hit
LoopHead(iter, plog) ==
    IF LoopCondition(iter, max_iterations)
    THEN /\ iteration' = iter + 1
         /\ Emit(Append(plog, Line("iteration", iter + 1, NoName)), << >>,
                 "thinking", outcome)
    ELSE /\ iteration' = iter
         /\ Emit(Append(plog, Line("limit", 0, NoName)), MSG_LIMIT,
                 "terminal", "exhausted")

\* the body of the for loop over tool_calls up to its yield, for call k
BeginTool(calls, k, plog) ==
    IF calls[k].kind # "dict" THEN Raise("tool_call_subscript")
    ELSE IF calls[k].args.t # "dict" THEN Raise("arguments_items")
    ELSE Emit(Append(plog, Line("tool", 0, calls[k].name)), << >>, "tool", outcome)

\* run_stream behind the call of sanitize_input, which returned s: the
\* empty-query exit, or the seeding of the transcript and the first pass
\* through the top of the loop
StartWith(s) ==
    IF EmptySanitized(s.text)
    THEN /\ Emit(<< Line("empty_query", 0, NoName) >>, MSG_EMPTY_QUERY,
                 "terminal", "validation")
         /\ UNCHANGED << iteration, messages >>
    ELSE /\ messages' = << Msg("system", << "SYSTEM_PROMPT" >>, << >>, ""),
                           Msg("user", s.text, << >>, "") >>
         /\ LoopHead(0, << >>)

\* ------------------------------------------------------------------------
\* Steps of run_agent before it iterates run_stream
\* ------------------------------------------------------------------------
\* run_agent on a blank query: one warning pair, run_stream is never called
AppBlank ==
    /\ driver = "app"
    /\ app_pc = "start"
    /\ AppBlankQuery(user_query)
    /\ app_stream' = << [progress |-> << Line("app_warning", 0, NoName) >>,
                         final |-> << >>, steps |-> 0] >>
    /\ app_pc' = "done"
    /\ UNCHANGED << config, pc, outcome, crash, iteration, messages, progress_log,
                    iter_locals, stream, history >>

\* run_agent on any other query: the launch pair, then it iterates run_stream
AppLaunch ==
    /\ driver = "app"
    /\ app_pc = "start"
    /\ ~AppBlankQuery(user_query)
    /\ app_stream' = << [progress |-> << Line("app_launch", 0, NoName) >>,
                         final |-> << >>, steps |-> 0] >>
    /\ app_pc' = "relay"
    /\ UNCHANGED << config, pc, outcome, crash, iteration, messages, progress_log,
                    iter_locals, stream, history >>

\* ------------------------------------------------------------------------
\* Steps of run_stream: each runs the generator from one yield to the next
\* ------------------------------------------------------------------------
\* the first next(): sanitization, the empty-query exit, the seeding of the
\* transcript and the first pass through the top of the loop
RunStart ==
    /\ pc = "start"
    /\ driver = "direct" \/ app_pc = "relay"
    /\ StartWith(sanitize_input(user_query, default_max_length))
    /\ UNCHANGED << config, iter_locals, history >>

\* from the iteration's yield: the LLM call and the checks on its result, up
\* to the terminal yield, the nudge's yield or the first tool's yield
AfterLlm(r) ==
    /\ llm_results' = Append(llm_results, r)
    /\ response' = r
    /\ IF Classify(r) = "llm_failure"
       THEN /\ Emit(Append(progress_log, Line("llm_error", 0, NoName)),
                    MSG_LLM_FAIL, "terminal", "llm_failure")
            /\ UNCHANGED << tool_calls, tc_idx, tool_results >>
       ELSE IF Classify(r) = "safety"
       THEN /\ Emit(Append(progress_log, Line("blocked", 0, NoName)),
                    MSG_BLOCKED, "terminal", "safety")
            /\ UNCHANGED << tool_calls, tc_idx, tool_results >>
       ELSE IF Classify(r) = "final"
       THEN /\ Emit(Append(progress_log, Line("final", 0, NoName)),
                    FinalAnswer(r.text), "terminal", "final")
            /\ UNCHANGED << tool_calls, tc_idx, tool_results >>
       ELSE LET p == _parse_tool_calls(r.text)
            IN  IF p.raised
                THEN /\ Raise("parse_membership")
                     /\ UNCHANGED << tool_calls, tc_idx, tool_results >>
                ELSE IF p.calls = << >>
                THEN /\ Emit(Append(progress_log, Line("no_tool_calls", 0, NoName)),
                             << >>, "nudge", outcome)
                     /\ tool_calls' = << >>
                     /\ UNCHANGED << tc_idx, tool_results >>
                ELSE /\ tool_calls' = p.calls
                     /\ tool_results' = << >>
                     /\ tc_idx' = 1
                     /\ BeginTool(p.calls, 1, progress_log)
    /\ UNCHANGED << config, iteration, messages, dispatched, invoked >>

\* from the iteration's yield: the LLM call, with a result out of `results`,
\* and the checks on it
ThinkOf(results) ==
    /\ pc = "thinking"
    /\ \E r \in results : AfterLlm(r)

Think == ThinkOf(LLMResults)

\* the nudge with the counter raised once more before the loop goes to its
\* top
AfterNudgeExtraBudget ==
    /\ pc = "nudge"
    /\ messages' = messages \o
                   << Msg("assistant", response.text, << >>, ""),
                      Msg("user", << "NUDGE" >>, << >>, "") >>
    /\ LoopHead(iteration + 1, progress_log)
    /\ UNCHANGED << config, iter_locals, history >>

\* the nudge without the assistant message: only the corrective message is
\* appended
AfterNudgeOnlyCorrective ==
    /\ pc = "nudge"
    /\ messages' = Append(messages, Msg("user", << "NUDGE" >>, << >>, ""))
    /\ LoopHead(iteration, progress_log)
    /\ UNCHANGED << config, iter_locals, history >>

\* the nudge with the newest message of the transcript dropped before the
\* two messages are appended
AfterNudgeDropsNewest ==
    /\ pc = "nudge"
    /\ messages' = SubSeq(messages, 1, Len(messages) - 1) \o
                   << Msg("assistant", response.text, << >>, ""),
                      Msg("user", << "NUDGE" >>, << >>, "") >>
    /\ LoopHead(iteration, progress_log)
    /\ UNCHANGED << config, iter_locals, history >>

\* from the nudge's yield: the response and the corrective message are
\* appended, and the loop goes to its top
AfterNudge ==
    /\ pc = "nudge"
    /\ messages' = messages \o
                   << Msg("assistant", response.text, << >>, ""),
                      Msg("user", << "NUDGE" >>, << >>, "") >>
    /\ LoopHead(iteration, progress_log)
    /\ UNCHANGED << config, iter_locals, history >>

\* from a tool's yield: the tool is executed; then the next tool call is
\* begun, or the results are appended and the loop goes to its top
AfterTool ==
    /\ pc = "tool"
    /\ LET call == tool_calls[tc_idx]
           e    == Execute(call)
           results == Append(tool_results, e.result)
       IN  /\ dispatched' = Append(dispatched,
                  [iter |-> iteration, call |-> call, raised |-> e.raised,
                   invoked |-> e.invoked, result |-> e.result])
           /\ invoked' = IF e.invoked THEN Append(invoked, call.name.v) ELSE invoked
           /\ IF e.raised
              THEN /\ Raise("execute_tool")
                   /\ UNCHANGED << iteration, messages, tc_idx, tool_results >>
              ELSE IF tc_idx < Len(tool_calls)
              THEN /\ tool_results' = results
                   /\ tc_idx' = tc_idx + 1
                   /\ BeginTool(tool_calls, tc_idx + 1, progress_log)
                   /\ UNCHANGED << iteration, messages >>
              ELSE /\ tool_results' = results
                   /\ tc_idx' = tc_idx
                   /\ messages' = messages \o
                          << Msg("assistant", response.text, << >>, ""),
                             Msg("user", << "TOOL_RESULTS" >>, results, Reminder(iteration)) >>
                   /\ LoopHead(iteration, progress_log)
    /\ UNCHANGED << config, response, tool_calls, llm_results >>

\* from a terminal yield: the generator returns, and run_agent with it
Finish ==
    /\ pc = "terminal"
    /\ pc' = "done"
    /\ app_pc' = IF driver = "app" THEN "done" ELSE app_pc
    /\ UNCHANGED << config, outcome, crash, iteration, messages, progress_log,
                    iter_locals, stream, app_stream, history >>

Next ==
    \/ AppBlank
    \/ AppLaunch
    \/ RunStart
    \/ Think
    \/ AfterNudge
    \/ AfterTool
    \/ Finish

Spec == Init /\ [][Next]_vars

\* ------------------------------------------------------------------------
\* Two runs on one shared agent, interleaved at their yields (two UI
\* sessions iterate agent.run_stream).  The agent's fields are shared:
\* max_iterations is the one variable both runs read.  Everything else
\* run_stream works with is a local of its generator frame: the variables
\* hold the frame of the generator that is running, suspended the frame of
\* the other one, and PairSwitch hands control from one to the other.
\* ------------------------------------------------------------------------
\* the queries and the LLM results of the interleaved runs
PairQueries == { << "q" >>, << "ws", "INJ", "<", "adm", ">", "q", "ws" >> }

PairResults ==
    { None } \cup
    { [ok |-> TRUE, text |-> r] :
        r \in { << "txt" >>, << "txt", "OPEN", "ws", "J_roi", "ws", "CLOSE" >>,
                << "MARK", "txt" >>, << "D_os" >> } }

\* the generator frame of a run that has not started
NewFrame(id, query) ==
    [id |-> id, user_query |-> query, pc |-> "start", outcome |-> "none",
     crash |-> "", iteration |-> 0, messages |-> << >>, progress_log |-> << >>,
     response |-> None, tool_calls |-> << >>, tc_idx |-> 0, tool_results |-> << >>,
     stream |-> << >>, llm_results |-> << >>, dispatched |-> << >>, invoked |-> << >>]

\* the frame of the generator that is running
LiveFrame ==
    [id |-> 3 - suspended.id, user_query |-> user_query, pc |-> pc,
     outcome |-> outcome, crash |-> crash, iteration |-> iteration,
     messages |-> messages, progress_log |-> progress_log, response |-> response,
     tool_calls |-> tool_calls, tc_idx |-> tc_idx, tool_results |-> tool_results,
     stream |-> stream, llm_results |-> llm_results, dispatched |-> dispatched,
     invoked |-> invoked]

\* a transcript kept on the agent: the generator that resumes works on the
\* list the other one left
ResumedTranscriptOnAgent(live, resumed) == live

\* messages is a local of run_stream: the generator that resumes works on
\* its own list
ResumedTranscript(live, resumed) == resumed

PairInit ==
    /\ driver = "direct"
    /\ max_iterations \in 0..MaxPairN
    /\ user_query \in PairQueries
    /\ \E q \in PairQueries : suspended = NewFrame(2, q)
    /\ pc = "start"
    /\ outcome = "none"
    /\ crash = ""
    /\ iteration = 0
    /\ messages = << >>
    /\ progress_log = << >>
    /\ response = None
    /\ tool_calls = << >>
    /\ tc_idx = 0
    /\ tool_results = << >>
    /\ stream = << >>
    /\ app_pc = "off"
    /\ app_stream = << >>
    /\ llm_results = << >>
    /\ dispatched = << >>
    /\ invoked = << >>
    /\ max_length = default_max_length
    /\ sanitized = NotCalled
    /\ ClientIdle

\* the running generator is suspended at a yield (or has not been started,
\* or has returned) and the other one is resumed
PairSwitch ==
    /\ suspended' = LiveFrame
    /\ user_query' = suspended.user_query
    /\ pc' = suspended.pc
    /\ outcome' = suspended.outcome
    /\ crash' = suspended.crash
    /\ iteration' = suspended.iteration
    /\ messages' = ResumedTranscript(messages, suspended.messages)
    /\ progress_log' = suspended.progress_log
    /\ response' = suspended.response
    /\ tool_calls' = suspended.tool_calls
    /\ tc_idx' = suspended.tc_idx
    /\ tool_results' = suspended.tool_results
    /\ stream' = suspended.stream
    /\ llm_results' = suspended.llm_results
    /\ dispatched' = suspended.dispatched
    /\ invoked' = suspended.invoked
    /\ UNCHANGED << driver, max_iterations, app_pc, app_stream, max_length, sanitized,
                    client >>

PairThink == ThinkOf(PairResults)

PairNext ==
    \/ PairSwitch
    \/ RunStart
    \/ PairThink
    \/ AfterNudge
    \/ AfterTool
    \/ Finish

PairSpec == PairInit /\ [][PairNext]_vars

\* ------------------------------------------------------------------------
\* The sanitizer on its own: sanitize_input applied to texts put together
\* from up to MaxPieces pieces, with max_length from -1 to MaxCut or left
\* at its default.  user_query holds the text, max_length the parameter,
\* sanitized the pair returned.  A call with the default max_length is the
\* call run_stream makes, and run_stream goes on from it up to the end of
\* its first LLM call, which fails.
\* ------------------------------------------------------------------------
\* the pieces: ordinary text, whitespace, an injection phrase, a code fence,
\* fake tags in either letter case, and the two halves of a tag
SanPieces ==
    { << "q" >>, << "ws" >>, << "INJ" >>, << "BT", "BT", "BT" >>,
      << "BT" >>, << "BT", "BT" >>,
      << "<", "sys", ">" >>, << "<", "SYS", ">" >>, << "</", "sys", ">" >>,
      << "<", "adm", ">" >>, << "[", "inst", "]" >>, << "[/", "inst", "]" >>,
      << "<" >>, << "sys", ">" >> }

RECURSIVE PieceTexts(_)
PieceTexts(n) ==
    IF n = 0 THEN { << >> }
    ELSE PieceTexts(n - 1) \cup { t \o p : t \in PieceTexts(n - 1), p \in SanPieces }

SanTexts == PieceTexts(MaxPieces)

SanMaxLengths == (-1..MaxCut) \cup { default_max_length }

SanInit ==
    /\ user_query \in SanTexts
    /\ max_length \in SanMaxLengths
    /\ sanitized = NotCalled
    /\ ClientIdle
    /\ pc = "san_start"
    /\ suspended = NoFrame
    /\ driver = "direct"
    /\ max_iterations = 1
    /\ outcome = "none"
    /\ crash = ""
    /\ iteration = 0
    /\ messages = << >>
    /\ progress_log = << >>
    /\ response = None
    /\ tool_calls = << >>
    /\ tc_idx = 0
    /\ tool_results = << >>
    /\ stream = << >>
    /\ app_pc = "off"
    /\ app_stream = << >>
    /\ llm_results = << >>
    /\ dispatched = << >>
    /\ invoked = << >>

\* sanitized_query, warnings = sanitize_input(user_query, max_length)
SanCall ==
    /\ pc = "san_start"
    /\ sanitized' = sanitize_input(user_query, max_length)
    /\ pc' = "sanitized"
    /\ UNCHANGED << driver, max_iterations, user_query, suspended, max_length, client,
                    outcome, crash, iteration, messages, progress_log, iter_locals,
                    stream, app_pc, app_stream, history >>

\* run_stream from the return of its call of sanitize_input to its first yield
SanProceed ==
    /\ pc = "sanitized"
    /\ max_length = default_max_length
    /\ StartWith(sanitized)
    /\ UNCHANGED << config, iter_locals, history >>

\* the first LLM call of that run, which returns None
SanThink == ThinkOf({ None })

SanNext ==
    \/ SanCall
    \/ SanProceed
    \/ SanThink

SanSpec == SanInit /\ [][SanNext]_vars

\* ------------------------------------------------------------------------
\* The tool estimate_budget on its own: one call with keyword arguments, as
\* _execute_tool makes it.  tool_calls holds the call, tool_results the
\* mapping returned.  The company sizes leave out "small", whose multiplier
\* 0.7 the code applies in floating point with a result that int() may cut
\* one below the product in tenths.
\* ------------------------------------------------------------------------
BudgetGoals == { "leads", "Leads", "sales", "awareness", "retention", "other" }

BudgetIndustries ==
    { << "I", "T" >>, << "i", "t" >>, << "s", "a", "a", "s" >>, << "S", "a", "a", "S" >>,
      << "b", "2", "b", "ws", "s", "a", "a", "s" >>, << "B", "2", "B" >>,
      << "retail" >>, << "x" >> }

BudgetLeads == { NoLeads, Leads(0), Leads(1), Leads(3), Leads(10) }

BudgetSizes == { "startup", "medium", "large", "Large", "other" }

BudgetInit ==
    /\ \E g \in BudgetGoals, i \in BudgetIndustries, n \in BudgetLeads, z \in BudgetSizes :
          tool_calls = << [name |-> "estimate_budget",
                           arguments |-> [goal |-> g, industry |-> i,
                                          target_leads |-> n, company_size |-> z]] >>
    /\ tool_results = << >>
    /\ pc = "tool_start"
    /\ suspended = NoFrame
    /\ driver = "direct"
    /\ max_iterations = 0
    /\ user_query = << >>
    /\ outcome = "none"
    /\ crash = ""
    /\ iteration = 0
    /\ messages = << >>
    /\ progress_log = << >>
    /\ response = None
    /\ tc_idx = 1
    /\ stream = << >>
    /\ app_pc = "off"
    /\ app_stream = << >>
    /\ llm_results = << >>
    /\ dispatched = << >>
    /\ invoked = << >>
    /\ max_length = default_max_length
    /\ sanitized = NotCalled
    /\ ClientIdle

\* result = TOOL_FUNCTIONS["estimate_budget"](**arguments)
BudgetCall ==
    /\ pc = "tool_start"
    /\ LET a == tool_calls[tc_idx].arguments
       IN  tool_results' =
               << estimate_budget(a.goal, a.industry, a.target_leads, a.company_size) >>
    /\ invoked' = Append(invoked, "estimate_budget")
    /\ pc' = "tool_done"
    /\ UNCHANGED << config, outcome, crash, iteration, messages, progress_log,
                    response, tool_calls, tc_idx, stream, app_pc, app_stream,
                    llm_results, dispatched >>

BudgetNext == BudgetCall

BudgetSpec == BudgetInit /\ [][BudgetNext]_vars

\* ------------------------------------------------------------------------
\* The four lookup tools on their own: each is called once with an industry
\* and its other arguments at fixed values (the defaults where the code has
\* one).  tool_calls holds the call, tool_results the mapping returned.
\* ------------------------------------------------------------------------
LookupTools ==
    { "analyze_target_audience", "analyze_seasonality", "competitor_benchmark",
      "estimate_budget" }

\* the rows of a tool's table
TableOf(tool) ==
    CASE tool = "analyze_target_audience" -> industry_data
      [] tool = "analyze_seasonality" -> seasonality_data
      [] tool = "competitor_benchmark" -> benchmarks
      [] tool = "estimate_budget" -> industry_cac

KeysOf(tool) == { TableOf(tool)[k].key : k \in 1..Len(TableOf(tool)) }

\* every key of the four tables as written and in lower case, and texts
\* that are no key: an unknown word, the empty text, a mixed-case spelling,
\* a phrase naming two keys
LookupIndustries ==
    LET keys == UNION { KeysOf(t) : t \in LookupTools }
    IN  keys \cup { Lower(k) : k \in keys }
             \cup { << "x" >>, << >>, << "I", "t" >>,
                    << "cafe", "sp", "restaurant" >> }

LookupInit ==
    /\ \E t \in LookupTools, i \in LookupIndustries :
          tool_calls = << [name |-> t, arguments |-> [industry |-> i]] >>
    /\ tool_results = << >>
    /\ pc = "lookup_start"
    /\ suspended = NoFrame
    /\ driver = "direct"
    /\ max_iterations = 0
    /\ user_query = << >>
    /\ outcome = "none"
    /\ crash = ""
    /\ iteration = 0
    /\ messages = << >>
    /\ progress_log = << >>
    /\ response = None
    /\ tc_idx = 1
    /\ stream = << >>
    /\ app_pc = "off"
    /\ app_stream = << >>
    /\ llm_results = << >>
    /\ dispatched = << >>
    /\ invoked = << >>
    /\ max_length = default_max_length
    /\ sanitized = NotCalled
    /\ ClientIdle

\* result = TOOL_FUNCTIONS[name](**arguments)
LookupCall ==
    /\ pc = "lookup_start"
    /\ LET name == tool_calls[tc_idx].name
           i    == tool_calls[tc_idx].arguments.industry
       IN  tool_results' =
               << CASE name = "analyze_target_audience" -> analyze_target_audience(<< "q" >>, i)
                    [] name = "analyze_seasonality" -> analyze_seasonality(i, "dec")
                    [] name = "competitor_benchmark" -> competitor_benchmark(i, "medium")
                    [] name = "estimate_budget" ->
                           estimate_budget("leads", i, Leads(1), "medium") >>
    /\ invoked' = Append(invoked, tool_calls[tc_idx].name)
    /\ pc' = "lookup_done"
    /\ UNCHANGED << config, outcome, crash, iteration, messages, progress_log,
                    response, tool_calls, tc_idx, stream, app_pc, app_stream,
                    llm_results, dispatched >>

LookupNext == LookupCall

LookupSpec == LookupInit /\ [][LookupNext]_vars

\* ------------------------------------------------------------------------
\* The tool-call parser on its own: _parse_tool_calls applied to every text
\* of up to MaxTextLen symbols.  response holds the text, tool_calls the
\* list returned, pc whether the call has returned or raised.
\* ------------------------------------------------------------------------
ParseAlphabet ==
    { "txt", "ws", "OPEN", "CLOSE", "J_roi", "J_bad", "J_q_head", "J_q_tail" }

ParseTexts == UNION { [1..n -> ParseAlphabet] : n \in 0..MaxTextLen }

ParseInit ==
    /\ suspended = NoFrame
    /\ driver = "direct"
    /\ max_iterations = 0
    /\ user_query = << >>
    /\ pc = "parse_start"
    /\ outcome = "none"
    /\ crash = ""
    /\ iteration = 0
    /\ messages = << >>
    /\ progress_log = << >>
    /\ response \in { [ok |-> TRUE, text |-> t] : t \in ParseTexts }
    /\ tool_calls = << >>
    /\ tc_idx = 0
    /\ tool_results = << >>
    /\ stream = << >>
    /\ app_pc = "off"
    /\ app_stream = << >>
    /\ llm_results = << >>
    /\ dispatched = << >>
    /\ invoked = << >>
    /\ max_length = default_max_length
    /\ sanitized = NotCalled
    /\ ClientIdle

\* tool_calls = self._parse_tool_calls(response)
ParseCall ==
    /\ pc = "parse_start"
    /\ LET p == _parse_tool_calls(response.text)
       IN  /\ tool_calls' = p.calls
           /\ pc' = IF p.raised THEN "parse_raised" ELSE "parsed"
           /\ crash' = IF p.raised THEN "parse_membership" ELSE crash
    /\ UNCHANGED << config, outcome, iteration, messages, progress_log, response,
                    tc_idx, tool_results, stream, app_pc, app_stream, history >>

ParseNext == ParseCall

ParseSpec == ParseInit /\ [][ParseNext]_vars

\* ------------------------------------------------------------------------
\* The LLM client on its own: one call of _call_llm, followed request by
\* request.  response holds the value returned, pc whether the call is in
\* its loop or has returned.
\* ------------------------------------------------------------------------
\* the values of max_retries a caller passes beyond the default
MaxExtraRetries == 1

LlmMaxRetries == 0..(default_max_retries + MaxExtraRetries)

\* what a request can come to: a completion (with text, with an empty
\* content), HTTP 429, other HTTP errors (408, 500, 503), a timeout, a
\* refused connection, a body without the expected keys
Outcomes ==
    { Completion(<< "txt" >>), Completion(<< >>),
      HttpError(429), HttpError(408), HttpError(500), HttpError(503),
      TimedOut, OtherException("connection_error"), OtherException("bad_body") }

LlmInit ==
    /\ suspended = NoFrame
    /\ driver = "direct"
    /\ max_iterations = 0
    /\ user_query = << >>
    /\ pc = "llm_start"
    /\ outcome = "none"
    /\ crash = ""
    /\ iteration = 0
    /\ messages = << >>
    /\ progress_log = << >>
    /\ response = None
    /\ tool_calls = << >>
    /\ tc_idx = 0
    /\ tool_results = << >>
    /\ stream = << >>
    /\ app_pc = "off"
    /\ app_stream = << >>
    /\ llm_results = << >>
    /\ dispatched = << >>
    /\ invoked = << >>
    /\ max_length = default_max_length
    /\ sanitized = NotCalled
    /\ max_retries \in LlmMaxRetries
    /\ attempt = 0
    /\ requests = << >>
    /\ sleeps = << >>

\* the loop has no further pass: print, return None
GiveUp ==
    /\ pc' = "llm_returned"
    /\ response' = None

\* the call: payload and headers are built, the loop is entered (or, with
\* no pass to make, left at once)
LlmCall ==
    /\ pc = "llm_start"
    /\ IF HasNextAttempt(0, max_retries)
       THEN pc' = "llm_loop" /\ response' = response
       ELSE GiveUp
    /\ UNCHANGED << driver, max_iterations, user_query, suspended, max_length, sanitized,
                    max_retries, attempt, requests, sleeps,
                    outcome, crash, iteration, messages, progress_log,
                    tool_calls, tc_idx, tool_results, stream, app_pc, app_stream,
                    history >>

\* one pass of the loop: the request is sent and comes to outcome o; the
\* call returns, or sleeps and goes to the next pass, or, with no pass left,
\* sleeps and gives up
LlmAttemptOf(outcomes) ==
    /\ pc = "llm_loop"
    /\ \E o \in outcomes :
          LET h == HandleOutcome(o, attempt)
          IN  /\ requests' = Append(requests, o)
              /\ sleeps' = IF h.wait > 0 THEN Append(sleeps, h.wait) ELSE sleeps
              /\ IF ~h.retry
                 THEN /\ pc' = "llm_returned"
                      /\ response' = h.value
                      /\ attempt' = attempt
                 ELSE /\ attempt' = attempt + 1
                      /\ IF HasNextAttempt(attempt + 1, max_retries)
                         THEN pc' = "llm_loop" /\ response' = response
                         ELSE GiveUp
    /\ UNCHANGED << driver, max_iterations, user_query, suspended, max_length, sanitized,
                    max_retries,
                    outcome, crash, iteration, messages, progress_log,
                    tool_calls, tc_idx, tool_results, stream, app_pc, app_stream,
                    history >>

LlmAttempt == LlmAttemptOf(Outcomes)

LlmNext ==
    \/ LlmCall
    \/ LlmAttempt

LlmSpec == LlmInit /\ [][LlmNext]_vars

\* ------------------------------------------------------------------------
\* run_stream together with the LLM client: each LLM call of the run is made
\* request by request, by the loop of _call_llm, and the checks of the
\* iteration are applied to what the call returns.  requests and sleeps
\* collect the requests and the sleeps of all calls of the run.
\* ------------------------------------------------------------------------
MaxCallN == 2

\* what a request can come to: a completion (prose, a tool call, a final
\* answer, an empty content), HTTP 429, HTTP 500
CallOutcomes ==
    { Completion(<< "txt" >>), Completion(<< "OPEN", "J_roi", "CLOSE" >>),
      Completion(<< "MARK", "txt" >>), Completion(<< >>),
      HttpError(429), HttpError(500) }

CallInit ==
    /\ suspended = NoFrame
    /\ driver = "direct"
    /\ max_iterations \in 0..MaxCallN
    /\ user_query = << "q" >>
    /\ pc = "start"
    /\ outcome = "none"
    /\ crash = ""
    /\ iteration = 0
    /\ messages = << >>
    /\ progress_log = << >>
    /\ response = None
    /\ tool_calls = << >>
    /\ tc_idx = 0
    /\ tool_results = << >>
    /\ stream = << >>
    /\ app_pc = "off"
    /\ app_stream = << >>
    /\ llm_results = << >>
    /\ dispatched = << >>
    /\ invoked = << >>
    /\ max_length = default_max_length
    /\ sanitized = NotCalled
    /\ ClientIdle

\* from the iteration's yield: response = self._call_llm(messages) is
\* called, and its loop is entered with attempt 0
CallLlm ==
    /\ pc = "thinking"
    /\ attempt' = 0
    /\ IF HasNextAttempt(0, max_retries)
       THEN pc' = "llm_loop" /\ response' = response
       ELSE GiveUp
    /\ UNCHANGED << driver, max_iterations, user_query, suspended, max_length, sanitized,
                    max_retries, requests, sleeps,
                    outcome, crash, iteration, messages, progress_log,
                    tool_calls, tc_idx, tool_results, stream, app_pc, app_stream,
                    history >>

CallAttempt == LlmAttemptOf(CallOutcomes)

\* _call_llm has returned: the checks of the iteration on its result
CallReturn ==
    /\ pc = "llm_returned"
    /\ AfterLlm(response)

CallNext ==
    \/ RunStart
    \/ CallLlm
    \/ CallAttempt
    \/ CallReturn
    \/ AfterNudge
    \/ AfterTool
    \/ Finish

CallSpec == CallInit /\ [][CallNext]_vars

\* ------------------------------------------------------------------------
\* Longer runs: run_stream with max_iterations up to MaxLongN, on one query
\* and with few LLM results, so that the iterations behind the fourth and
\* their reminders are reached.
\* ------------------------------------------------------------------------
MaxLongN == 5

\* a response with one tool call, a response with none, a failed call
LongResults ==
    { [ok |-> TRUE, text |-> << "OPEN", "J_roi", "CLOSE" >>],
      [ok |-> TRUE, text |-> << "txt" >>],
      None }

LongInit ==
    /\ suspended = NoFrame
    /\ driver = "direct"
    /\ max_iterations \in 0..MaxLongN
    /\ user_query = << "q" >>
    /\ pc = "start"
    /\ outcome = "none"
    /\ crash = ""
    /\ iteration = 0
    /\ messages = << >>
    /\ progress_log = << >>
    /\ response = None
    /\ tool_calls = << >>
    /\ tc_idx = 0
    /\ tool_results = << >>
    /\ stream = << >>
    /\ app_pc = "off"
    /\ app_stream = << >>
    /\ llm_results = << >>
    /\ dispatched = << >>
    /\ invoked = << >>
    /\ max_length = default_max_length
    /\ sanitized = NotCalled
    /\ ClientIdle

LongThink == ThinkOf(LongResults)

LongNext ==
    \/ RunStart
    \/ LongThink
    \/ AfterNudge
    \/ AfterTool
    \/ Finish

LongSpec == LongInit /\ [][LongNext]_vars

\* ------------------------------------------------------------------------
\* Vocabulary of the properties
\* ------------------------------------------------------------------------
ContainsSym(text, syms) == \E i \in 1..Len(text) : text[i] \in syms

\* the run has passed validation: its transcript exists
RunStarted == messages # << >>

\* the generator is suspended at a terminal yield or has returned
Ended == pc \in {"terminal", "done"}

LastPair == stream[Len(stream)]

\* a tool was dispatched in iteration i
DispatchedIn(i) == \E k \in 1..Len(dispatched) : dispatched[k].iter = i

\* a result of the LLM client that is a non-empty, safe text without final
\* marker in which the parser finds no tool call
QuietResult(r) ==
    /\ r.ok
    /\ r.text # << >>
    /\ ~ContainsSym(r.text, {"MARK", "D_os", "D_eval"})
    /\ ~_parse_tool_calls(r.text).raised
    /\ _parse_tool_calls(r.text).calls = << >>

AllQuiet == \A i \in 1..Len(llm_results) : QuietResult(llm_results[i])

\* ------------------------------------------------------------------------
\* Properties
\* ------------------------------------------------------------------------
\* C1: with max_iterations = N, no run starts an (N+1)-th iteration or makes
\* an (N+1)-th LLM call; and a run whose every response is a safe, non-empty
\* text without marker and without tool call ends, after exactly N
\* iterations and N LLM calls, exhausted with the iteration-limit message.
C1_IterationBound ==
    /\ iteration <= max_iterations
    /\ Len(llm_results) <= max_iterations
    /\ (RunStarted /\ AllQuiet) =>
          /\ pc # "crashed"
          /\ Ended => /\ outcome = "exhausted"
                      /\ iteration = max_iterations
                      /\ Len(llm_results) = max_iterations
                      /\ LastPair.final = MSG_LIMIT

\* a run of MaxN quiet iterations, one of them with a discarded block, has
\* ended exhausted
C1_Witness ==
    /\ pc = "done"
    /\ outcome = "exhausted"
    /\ max_iterations = MaxN
    /\ Len(llm_results) = MaxN
    /\ AllQuiet
    /\ \E i \in 1..Len(llm_results) : ContainsSym(llm_results[i].text, {"OPEN"})

\* C2: a run that has a run state ends exactly once, by returning after one
\* terminal yield, and its outcome is a final answer, an LLM failure, a
\* safety rejection or exhaustion: it never ends by an exception.
C2_EndsInOneOfFour ==
    RunStarted =>
        /\ pc # "crashed"
        /\ Ended => outcome \in {"final", "llm_failure", "safety", "exhausted"}
        /\ \A i \in 1..(Len(stream) - 1) : stream[i].final = << >>

\* C3 as stated: a response that contains the final-answer marker ends the
\* run in that iteration in the FINAL state.
C3_MarkerAlwaysFinal ==
    \A i \in 1..Len(llm_results) :
        (llm_results[i].ok /\ ContainsSym(llm_results[i].text, {"MARK"})) =>
            /\ i = Len(llm_results)
            /\ Ended
            /\ outcome = "final"

\* C3 amended: a response that contains the final-answer marker and passes
\* the safety filter ends the run in that iteration in the FINAL state: it
\* is the last LLM call, the iteration counter is its number, no tool is
\* dispatched in that iteration, nothing is appended to the transcript, and
\* the result is the text after the last marker.
C3_SafeMarkerFinal ==
    \A i \in 1..Len(llm_results) :
        ( /\ llm_results[i].ok
          /\ ContainsSym(llm_results[i].text, {"MARK"})
          /\ ~ContainsSym(llm_results[i].text, {"D_os", "D_eval"}) ) =>
            /\ i = Len(llm_results)
            /\ iteration = i
            /\ Ended
            /\ outcome = "final"
            /\ ~DispatchedIn(i)
            /\ Len(messages) = 2 * i
            /\ LastPair.final = FinalAnswer(llm_results[i].text)

\* a run has returned FINAL in its second iteration, after a dispatch in the
\* first, on a response that holds the marker and a tool-call block
C3_Witness ==
    /\ pc = "done"
    /\ outcome = "final"
    /\ iteration = 2
    /\ DispatchedIn(1)
    /\ ContainsSym(response.text, {"MARK"})
    /\ ContainsSym(response.text, {"OPEN"})

\* C4: a response that matches a dangerous pattern aborts the run in that
\* iteration with the safety-rejection message, whatever else it contains
\* and however many iterations remain: it is the last LLM call, and no tool
\* is dispatched in that iteration.
C4_DangerousAborts ==
    \A i \in 1..Len(llm_results) :
        (llm_results[i].ok /\ ContainsSym(llm_results[i].text, {"D_os", "D_eval"})) =>
            /\ i = Len(llm_results)
            /\ iteration = i
            /\ Ended
            /\ outcome = "safety"
            /\ LastPair.final = MSG_BLOCKED
            /\ ~DispatchedIn(i)
            /\ Len(messages) = 2 * i

\* a run has been aborted in its second iteration, with budget left, on a
\* dangerous response that also holds the marker
C4_Witness ==
    /\ pc = "done"
    /\ outcome = "safety"
    /\ iteration = 2
    /\ iteration < max_iterations
    /\ ContainsSym(response.text, {"MARK"})
    /\ ContainsSym(response.text, {"D_eval"})

\* C5: a yielded pair has a non-empty final result if and only if it is the
\* terminal pair of the run.
C5_FinalIffTerminal ==
    \A i \in 1..Len(stream) :
        (stream[i].final # << >>) <=> (i = Len(stream) /\ Ended)

\* the query is empty once sanitized; the raw query is blank
SanitizedEmpty(q) == Strip(sanitize_input(q, default_max_length).text) = << >>
Blank(q) == \A i \in 1..Len(q) : q[i] = "ws"

\* C6 as stated: a query whose sanitized text is empty makes no LLM call and
\* its final result is empty, in run_stream's pairs and in run_agent's.
C6_EmptyQueryEmptyResult ==
    SanitizedEmpty(user_query) =>
        /\ llm_results = << >>
        /\ \A i \in 1..Len(stream) : stream[i].final = << >>
        /\ \A i \in 1..Len(app_stream) : app_stream[i].final = << >>

\* C6 amended: a query whose sanitized text is empty makes no LLM call, seeds
\* no transcript and dispatches no tool; run_stream yields a single pair, a
\* warning with the fixed "enter a valid query" message as its non-empty
\* final result, and returns.  The final result is empty only in run_agent's
\* own answer to a blank query, which never reaches run_stream; for a query
\* of stripped tags run_agent relays run_stream's message as the result.
C6_EmptyQueryNoOp ==
    SanitizedEmpty(user_query) =>
        /\ llm_results = << >>
        /\ messages = << >>
        /\ dispatched = << >>
        /\ iteration = 0
        /\ pc \in {"start", "terminal", "done"}
        /\ Len(stream) <= 1
        /\ Ended <=> Len(stream) = 1
        /\ Ended => outcome = "validation"
        /\ \A i \in 1..Len(stream) :
              /\ stream[i].progress = << Line("empty_query", 0, NoName) >>
              /\ stream[i].final = MSG_EMPTY_QUERY
        /\ (driver = "app" /\ Blank(user_query)) =>
              /\ stream = << >>
              /\ Len(app_stream) <= 1
              /\ \A i \in 1..Len(app_stream) :
                    /\ app_stream[i].progress = << Line("app_warning", 0, NoName) >>
                    /\ app_stream[i].final = << >>
        /\ (driver = "app" /\ ~Blank(user_query)) =>
              /\ Len(app_stream) <= 2
              /\ Len(app_stream) >= 1 => app_stream[1].final = << >>
              /\ Len(app_stream) = 2 =>
                    app_stream[2].final =
                        << "APP_HEADER" >> \o MSG_EMPTY_QUERY \o << "APP_FOOTER" >>

\* run_agent has relayed run_stream's answer to a query of fake tags only
C6_Witness ==
    /\ pc = "done"
    /\ driver = "app"
    /\ outcome = "validation"
    /\ ~Blank(user_query)
    /\ SanitizedEmpty(user_query)
    /\ Len(app_stream) = 2
    /\ llm_results = << >>

\* C7: when the LLM client returns failure, the step that made the call ends
\* at the terminal yield of ABORTED with the generic failure message and
\* appends nothing to the transcript; after it the run makes no LLM call,
\* appends nothing, yields nothing and returns.
C7_FailureIsFatal ==
    [][ /\ ( /\ Len(llm_results') > Len(llm_results)
             /\ ~llm_results'[Len(llm_results')].ok ) =>
               /\ pc' = "terminal"
               /\ outcome' = "llm_failure"
               /\ stream'[Len(stream')].final = MSG_LLM_FAIL
               /\ Len(stream') = Len(stream) + 1
               /\ messages' = messages
               /\ dispatched' = dispatched
        /\ outcome = "llm_failure" =>
               /\ llm_results' = llm_results
               /\ messages' = messages
               /\ stream' = stream
               /\ pc' = "done" ]_vars

\* a run has returned ABORTED on a failure of its second LLM call
C7_Witness ==
    /\ pc = "done"
    /\ outcome = "llm_failure"
    /\ iteration = 2
    /\ Len(llm_results) = 2
    /\ ~llm_results[2].ok
    /\ Len(messages) = 4

\* a block of the text that is a JSON object carrying name and arguments
WellFormedCall(match) ==
    /\ json_loads(match).ok
    /\ json_loads(match).v.kind = "dict"
    /\ json_loads(match).v.hasName
    /\ json_loads(match).v.hasArgs

\* the result reaches the parser, and every block of it is malformed
OnlyMalformedBlocks(r) ==
    /\ r.ok
    /\ r.text # << >>
    /\ ~ContainsSym(r.text, {"MARK", "D_os", "D_eval"})
    /\ FindMatches(r.text) # << >>
    /\ \A k \in 1..Len(FindMatches(r.text)) : ~WellFormedCall(FindMatches(r.text)[k])

\* C8: a response whose tool-call blocks are all malformed (invalid JSON, or
\* JSON that is no object with name and arguments) is handled as a response
\* without tool call: no exception is raised, no tool is dispatched.
C8_MalformedBlocksDiscarded ==
    \A i \in 1..Len(llm_results) :
        OnlyMalformedBlocks(llm_results[i]) =>
            /\ ~DispatchedIn(i)
            /\ i = Len(llm_results) => pc \notin {"crashed", "tool"}

\* C9: every tool call the parser returned is dispatched without an
\* exception leaving _execute_tool or the loop around it: a failing
\* invocation becomes an error result and the run goes on.
C9_ToolErrorsBecomeResults ==
    /\ \A k \in 1..Len(dispatched) : ~dispatched[k].raised
    /\ ~(pc = "crashed" /\ crash \in {"arguments_items", "execute_tool"})

\* the name of the call is not a key of the registry
UnknownName(call) ==
    ~(call.name.t = "str" /\ call.name.v \in DOMAIN TOOL_FUNCTIONS)

\* C10: _execute_tool on a name that is not in the registry raises nothing,
\* calls no registered tool and returns an error result, and the run goes on.
C10_UnknownToolIsErrorResult ==
    \A k \in 1..Len(dispatched) :
        UnknownName(dispatched[k].call) =>
            /\ ~dispatched[k].raised
            /\ ~dispatched[k].invoked
            /\ dispatched[k].result.kind = "error"
            /\ k = Len(dispatched) => pc # "crashed"

\* the JSON bodies of a text that carry name and arguments, in the order
\* they stand in the text
TextOrderCalls(text) ==
    LET js == SelectSeq(text, LAMBDA c : c \in JsonSymbols /\ HasBothKeys(JsonValue[c]))
    IN  [k \in 1..Len(js) |-> JsonValue[js[k]]]

\* the result reaches the tool-call parser, and the parser returns
ReachesParser(r) == Classify(r) = "parse" /\ ~_parse_tool_calls(r.text).raised

\* the dispatches of iteration i, in the order they were made
DispatchedOf(i) == SelectSeq(dispatched, LAMBDA d : d.iter = i)

\* the names on the "calling tool" progress lines of iteration i, in the
\* order of the lines
ToolLinesOf(i) ==
    LET first == CHOOSE j \in 1..Len(progress_log) :
                     progress_log[j] = Line("iteration", i, NoName)
        last  == IF \E j \in 1..Len(progress_log) :
                        progress_log[j] = Line("iteration", i + 1, NoName)
                 THEN (CHOOSE j \in 1..Len(progress_log) :
                          progress_log[j] = Line("iteration", i + 1, NoName)) - 1
                 ELSE Len(progress_log)
        tl    == SelectSeq(SubSeq(progress_log, first + 1, last), LAMBDA l : l.k = "tool")
    IN  [k \in 1..Len(tl) |-> tl[k].name]

\* C11: in every iteration whose response the parser accepts, the calls
\* dispatched are, position by position, the calls in the order they stand
\* in the response text; so are the names on the progress lines; a call is
\* dispatched before the next one's line is written (one at a time); and the
\* tool-results message of the iteration lists the results in that order.
C11_OrderPreserved ==
    \A i \in 1..Len(llm_results) :
        ReachesParser(llm_results[i]) =>
            LET calls == TextOrderCalls(llm_results[i].text)
                d     == DispatchedOf(i)
                lines == ToolLinesOf(i)
            IN  /\ Len(d) <= Len(calls)
                /\ \A k \in 1..Len(d) : d[k].call = calls[k]
                /\ Len(lines) <= Len(calls)
                /\ \A k \in 1..Len(lines) : lines[k] = calls[k].name
                /\ Len(lines) - Len(d) = IF i = iteration /\ pc = "tool" THEN 1 ELSE 0
                /\ (calls # << >> /\ Len(messages) >= 2 * i + 2) =>
                       /\ Len(d) = Len(calls)
                       /\ messages[2 * i + 2].results =
                              [k \in 1..Len(calls) |->
                                  _execute_tool(calls[k].name, calls[k].args).result]

\* an iteration has dispatched two different calls and appended their results
C11_Witness ==
    /\ Len(messages) >= 4
    /\ Len(DispatchedOf(1)) = 2
    /\ DispatchedOf(1)[1].call # DispatchedOf(1)[2].call
    /\ Len(messages[4].results) = 2
    /\ messages[4].results[1] # messages[4].results[2]

\* the text has exactly one tool-call block, from the opening marker at i
\* to the closing marker at j, and no marker outside it
OnlyBlock(text, i, j) ==
    /\ i < j
    /\ text[i] = "OPEN"
    /\ text[j] = "CLOSE"
    /\ \A k \in (1..(i - 1)) \cup ((j + 1)..Len(text)) : text[k] \notin {"OPEN", "CLOSE"}

\* C12: a text with one well-formed block (opening marker, valid JSON object
\* with name and arguments, closing marker) parses to exactly one tool call,
\* the value of the JSON; a text whose only block holds invalid JSON parses
\* to no tool call.
C12_ParserRoundTrip ==
    pc # "parse_start" =>
        \A i, j \in 1..Len(response.text) :
            OnlyBlock(response.text, i, j) =>
                LET body == SubSeq(response.text, i + 1, j - 1)
                IN  /\ WellFormedCall(body) =>
                           /\ pc = "parsed"
                           /\ tool_calls = << json_loads(body).v >>
                    /\ (~json_loads(body).ok /\ ~ContainsSym(body, {"OPEN", "CLOSE"})) =>
                           /\ pc = "parsed"
                           /\ tool_calls = << >>

\* the result is a text the safety filter rejects
Rejected(r) == r.ok /\ ContainsSym(r.text, {"D_os", "D_eval"})

\* C13: the pairs yielded for a rejected response are a function of the
\* state before the response was received, and nothing is yielded after
\* them: the step that receives a rejected response yields, from run_stream
\* and from run_agent, one pair made of the progress so far, the fixed
\* "blocked" line and the fixed rejection message.  Two runs that differ
\* only in the rejected text therefore yield the same pairs.
C13_RejectedNeverSurfaced ==
    [][ /\ ( /\ Len(llm_results') > Len(llm_results)
             /\ Rejected(llm_results'[Len(llm_results')]) ) =>
               LET plog == Append(progress_log, Line("blocked", 0, NoName))
               IN  /\ stream' = Append(stream, [progress |-> plog, final |-> MSG_BLOCKED])
                   /\ app_stream' = IF driver = "app"
                                     THEN Append(app_stream, Relay(plog, MSG_BLOCKED))
                                     ELSE app_stream
                   /\ pc' = "terminal"
        /\ outcome = "safety" =>
               /\ stream' = stream
               /\ app_stream' = app_stream
               /\ pc' = "done" ]_vars

\* run_agent has relayed the rejection of a response that held dangerous
\* text next to a tool-call block
C13_Witness ==
    /\ pc = "done"
    /\ driver = "app"
    /\ outcome = "safety"
    /\ ContainsSym(response.text, {"OPEN"})
    /\ ContainsSym(response.text, {"D_os"})
    /\ app_stream[Len(app_stream)].final = << "APP_HEADER" >> \o MSG_BLOCKED \o << "APP_FOOTER" >>

\* the texts that are internal diagnostic detail: the names of the safety
\* patterns and the messages of the exceptions raised during a run
Diagnostics ==
    { dangerous_patterns[k] : k \in 1..Len(dangerous_patterns) }
    \cup { "parse_membership", "tool_call_subscript", "arguments_items", "execute_tool" }

\* a yielded pair carries no diagnostic detail, in its progress lines or in
\* its result
NoDiagnostics(pair) ==
    /\ ~ContainsSym(pair.final, Diagnostics)
    /\ \A j \in 1..Len(pair.progress) :
          /\ pair.progress[j].name.t # "exc"
          /\ pair.progress[j].name.v \notin Diagnostics

\* C14: no pair yielded by run_stream or by run_agent carries the matched
\* pattern or the text of an exception raised during the run.
C14_NoDiagnosticsSurfaced ==
    /\ \A i \in 1..Len(stream) : NoDiagnostics(stream[i])
    /\ \A i \in 1..Len(app_stream) : NoDiagnostics(app_stream[i])

\* s is a proper prefix of t
ProperPrefix(s, t) == Len(s) < Len(t) /\ SubSeq(t, 1, Len(s)) = s

\* the results of the dispatches frame f made in its iteration k
FrameResults(f, k) ==
    LET d == SelectSeq(f.dispatched, LAMBDA x : x.iter = k)
    IN  [j \in 1..Len(d) |-> d[j].result]

\* the iterations of frame f whose messages have been appended
FrameAppended(f) == f.iteration - (IF f.outcome = "exhausted" THEN 0 ELSE 1)

\* the transcript and the iteration counter of frame f are made of f's own
\* query, f's own LLM results and f's own tool results
OwnTranscript(f) ==
    /\ f.iteration = Len(f.llm_results) + (IF f.pc = "thinking" THEN 1 ELSE 0)
    /\ f.messages # << >> =>
          /\ f.messages[1] = Msg("system", << "SYSTEM_PROMPT" >>, << >>, "")
          /\ f.messages[2] =
                Msg("user", sanitize_input(f.user_query, default_max_length).text, << >>, "")
          /\ Len(f.messages) = 2 + 2 * FrameAppended(f)
          /\ \A k \in 1..FrameAppended(f) :
                /\ f.messages[2 * k + 1] = Msg("assistant", f.llm_results[k].text, << >>, "")
                /\ f.messages[2 * k + 2].role = "user"
                /\ f.messages[2 * k + 2].results = FrameResults(f, k)

\* the pairs frame f has yielded are made of f's own progress: each pair
\* extends the log of the one before, the last one carries f's log, the
\* log counts f's iterations and names f's dispatched tools, and the result
\* is the one of f's own outcome
OwnStream(f) ==
    /\ \A k \in 1..(Len(f.stream) - 1) :
          /\ ProperPrefix(f.stream[k].progress, f.stream[k + 1].progress)
          /\ f.stream[k].final = << >>
    /\ f.stream # << >> =>
          /\ f.stream[Len(f.stream)].progress = f.progress_log
          /\ f.stream[Len(f.stream)].final =
                IF f.outcome = "final" THEN FinalAnswer(f.llm_results[Len(f.llm_results)].text)
                ELSE IF f.outcome = "safety" THEN MSG_BLOCKED
                ELSE IF f.outcome = "llm_failure" THEN MSG_LLM_FAIL
                ELSE IF f.outcome = "exhausted" THEN MSG_LIMIT
                ELSE IF f.outcome = "validation" THEN MSG_EMPTY_QUERY
                ELSE << >>
    /\ LET il == SelectSeq(f.progress_log, LAMBDA l : l.k = "iteration")
           tl == SelectSeq(f.progress_log, LAMBDA l : l.k = "tool")
       IN  /\ Len(il) = f.iteration
           /\ \A k \in 1..Len(il) : il[k].n = k
           /\ Len(tl) = Len(f.dispatched) + (IF f.pc = "tool" THEN 1 ELSE 0)
           /\ \A k \in 1..Len(f.dispatched) : tl[k] = Line("tool", 0, f.dispatched[k].call.name)

\* C15: of two runs interleaved at their yields on one agent, each keeps a
\* transcript, an iteration counter and a stream made of its own query, LLM
\* results and tool results only; and every step either is a step of the
\* running generator that leaves the frame of the other one as it is, or
\* hands control over with both frames as they are.  Each run therefore
\* takes the steps, and yields the pairs, it takes and yields when alone.
C15_RunsIsolated ==
    /\ [](OwnTranscript(LiveFrame) /\ OwnStream(LiveFrame)
           /\ OwnTranscript(suspended) /\ OwnStream(suspended))
    /\ [][ \/ suspended' = suspended
           \/ suspended' = LiveFrame /\ LiveFrame' = suspended ]_vars

\* both generators are suspended in the middle of their runs, each with a
\* transcript of its own: one before a tool call of its second iteration,
\* the other after its first response
C15_Witness ==
    /\ pc = "tool"
    /\ iteration = 2
    /\ suspended.pc = "nudge"
    /\ suspended.iteration = 1
    /\ messages # suspended.messages
    /\ user_query # suspended.user_query

\* the warning list holds the truncation warning
TruncationWarned(w) == \E k \in 1..Len(w) : w[k].w = "truncated"

\* C16 as stated: for every input and every max_length, an input longer
\* than max_length is returned with length at most max_length and with a
\* truncation warning, and an input of length at most max_length is
\* returned without truncation warning.
C16_TruncationAnyMaxLength ==
    pc = "sanitized" =>
        /\ Len(user_query) > max_length =>
              /\ Len(sanitized.text) <= max_length
              /\ TruncationWarned(sanitized.warnings)
        /\ Len(user_query) <= max_length => ~TruncationWarned(sanitized.warnings)

\* C16 amended: the same for every max_length that is not negative.
C16_TruncationBound ==
    (pc = "sanitized" /\ max_length >= 0) =>
        /\ Len(user_query) > max_length =>
              /\ Len(sanitized.text) <= max_length
              /\ TruncationWarned(sanitized.warnings)
        /\ Len(user_query) <= max_length => ~TruncationWarned(sanitized.warnings)

\* a text has been cut in the middle of a tag, to a length the later steps
\* reduced further
C16_Witness ==
    /\ pc = "sanitized"
    /\ max_length = MaxCut
    /\ Len(user_query) > max_length
    /\ user_query[max_length] = "<"
    /\ TruncationWarned(sanitized.warnings)
    /\ Len(sanitized.text) < max_length
    /\ sanitized.text # << >>

\* the text the sanitizer's other steps return for an input: the cut, the
\* removal of the fake tags, the replacement of the code fence, the strip
TextWithoutDetection(user_input, max_len) ==
    LET cut == IF Len(user_input) > max_len THEN Truncate(user_input, max_len)
               ELSE user_input
    IN  Strip(ReplaceAll(RemoveTags(cut, << >>, 1).text,
                         << "BT", "BT", "BT" >>, << "AP", "AP", "AP" >>))

\* the injection phrases of a text, in their order
Phrases(text) == SelectSeq(text, LAMBDA c : c = "INJ")

\* C17: for an input in which an injection pattern matches, the warning
\* list is not empty; the text returned is the text the other steps return
\* without the detection, with every phrase that survived the cut still in
\* it; and when that text is not empty, run_stream seeds the transcript
\* with it and makes its LLM call instead of ending at the empty-query exit.
C17_DetectionAdvisory ==
    (pc # "san_start" /\ InjectionFound(user_query)) =>
        /\ sanitized.warnings # << >>
        /\ sanitized.text = TextWithoutDetection(user_query, max_length)
        /\ Len(user_query) <= max_length =>
               Phrases(sanitized.text) = Phrases(user_query)
        /\ (pc # "sanitized" /\ sanitized.text # << >>) =>
               /\ outcome # "validation"
               /\ messages[2] = Msg("user", sanitized.text, << >>, "")
               /\ pc = "terminal" => Len(llm_results) = 1

\* the LLM has been called for a query in which a phrase was detected and
\* from which a fake tag was removed
C17_Witness ==
    /\ pc = "terminal"
    /\ Len(llm_results) = 1
    /\ ContainsSym(user_query, {"INJ"})
    /\ ContainsSym(user_query, {"adm"})
    /\ sanitized.text = << "INJ" >>
    /\ Len(sanitized.warnings) = 2

\* tag k of dangerous_tags occurs in the text, in any letter case
TagIn(text, k) == Contains(Lower(text), dangerous_tags[k])

\* C18: for an input that holds one of the fake tags and is not cut, the
\* text returned holds none of the tags, and a removal warning is recorded
\* for each tag the input held.
C18_TagsAbsentAfterSanitize ==
    (pc # "san_start" /\ max_length = default_max_length) =>
        \A k \in 1..Len(dangerous_tags) :
            TagIn(user_query, k) =>
                /\ \A j \in 1..Len(dangerous_tags) : ~TagIn(sanitized.text, j)
                /\ \E i \in 1..Len(sanitized.warnings) :
                       sanitized.warnings[i] = [w |-> "removed_tag", k |-> k]

ITRow == industry_cac[CHOOSE k \in 1..Len(industry_cac) : industry_cac[k].key = << "I", "T" >>]

\* C20: estimate_budget called with goal "leads", industry "IT" and no
\* target_leads returns a mapping whose optimal budget lies strictly between
\* the minimum and the maximum and whose estimated_cac is the average of
\* the IT row of the table.
C20_BudgetScenario ==
    ( /\ pc = "tool_done"
      /\ tool_calls[1].arguments.goal = "leads"
      /\ tool_calls[1].arguments.industry = << "I", "T" >>
      /\ tool_calls[1].arguments.target_leads = NoLeads ) =>
        /\ tool_results[1].budget_recommendations.minimum
              < tool_results[1].budget_recommendations.optimal
        /\ tool_results[1].budget_recommendations.optimal
              < tool_results[1].budget_recommendations.maximum
        /\ tool_results[1].estimated_cac = ITRow.avg

\* the "iteration" lines of the progress log
IterationLines == SelectSeq(progress_log, LAMBDA l : l.k = "iteration")

\* the iterations that have ended by appending their two messages
CompletedIterations == IF messages = << >> THEN 0 ELSE (Len(messages) - 2) \div 2

\* C21: the iteration counter is always between 0 and max_iterations; it
\* counts the iterations started (one progress line and at most one LLM call
\* each) and is at most one ahead of the iterations ended by a nudge or by a
\* tool dispatch; no step lowers it, and a step raises it by exactly 1 when
\* it starts an iteration and leaves it alone otherwise, the step that
\* appends the nudge included.
C21_CounterStepsByOne ==
    /\ []( /\ iteration \in 0..max_iterations
           /\ Len(IterationLines) = iteration
           /\ \A k \in 1..iteration : IterationLines[k].n = k
           /\ iteration = Len(llm_results) + (IF pc = "thinking" THEN 1 ELSE 0)
           /\ iteration - CompletedIterations \in {0, 1}
           /\ iteration = CompletedIterations <=>
                  (~RunStarted \/ outcome = "exhausted") )
    /\ [][ /\ iteration' \in {iteration, iteration + 1}
           /\ iteration' = iteration + 1 <=>
                  Len(IterationLines') = Len(IterationLines) + 1
           /\ pc \in {"nudge", "tool"} =>
                  iteration' - iteration = CompletedIterations' - CompletedIterations
                                           - (IF outcome' = "exhausted" THEN 1 ELSE 0) ]_vars

\* a run of MaxN iterations, one ended by a nudge and one by a tool dispatch,
\* has used up its budget
C21_Witness ==
    /\ pc = "done"
    /\ outcome = "exhausted"
    /\ iteration = MaxN
    /\ \E k \in 1..Len(messages) : messages[k].text = << "NUDGE" >>
    /\ \E k \in 1..Len(messages) : messages[k].text = << "TOOL_RESULTS" >>

\* the call of _call_llm has returned
LlmReturned == pc = "llm_returned"

\* the retries made: the requests sent after the first one
Retries == IF requests = << >> THEN 0 ELSE Len(requests) - 1

\* C22: every request but the last one came to HTTP 429 or to a timeout
\* (any mix), and the last one ended the call: a completion is returned at
\* once; a 429 or a timeout is left without retry only when max_retries
\* retries have been made, and then the call returns failure; never more
\* than max_retries retries are made, and no request follows the return.
C22_RetriesUpToMaxRetries ==
    /\ Retries <= max_retries
    /\ \A k \in 1..(Len(requests) - 1) : Retryable(requests[k])
    /\ (LlmReturned /\ requests # << >>) =>
          LET last == requests[Len(requests)]
          IN  /\ last.k = "ok" => response = [ok |-> TRUE, text |-> last.content]
              /\ Retryable(last) => /\ Retries = max_retries
                                    /\ response = None
    /\ ~LlmReturned => requests = << >> \/ Retryable(requests[Len(requests)])

\* the outcome is an HTTP error other than 429 or an exception other than a
\* request timeout
FatalOutcome(o) == (o.k = "http" /\ o.status # 429) \/ o.k \notin {"ok", "http", "timeout"}

\* C23: a request that comes to an HTTP error other than 429, or to an
\* exception other than a timeout, is the last request of the call: the
\* step that sends it returns failure without a sleep, however many passes
\* of the loop remain, and no request stands behind such an outcome.
C23_OtherErrorsFatalAtOnce ==
    /\ [](\A k \in 1..(Len(requests) - 1) : ~FatalOutcome(requests[k]))
    /\ []((requests # << >> /\ FatalOutcome(requests[Len(requests)])) =>
              /\ LlmReturned
              /\ response = None
              /\ attempt = Len(requests) - 1)
    /\ [][ ( /\ Len(requests') > Len(requests)
             /\ FatalOutcome(requests'[Len(requests')]) ) =>
               /\ sleeps' = sleeps
               /\ attempt' = attempt
               /\ pc' = "llm_returned" ]_vars

\* an HTTP 500 on the second request, with passes of the loop remaining, has
\* ended the call: two requests sent, one sleep (behind the 429)
C23_Witness ==
    /\ LlmReturned
    /\ max_retries = default_max_retries
    /\ requests = << HttpError(429), HttpError(500) >>
    /\ sleeps = << RateLimitWait(0) >>
    /\ response = None

\* C24: the sleep behind attempt k (0-based) that failed with HTTP 429 or
\* with a timeout lasts 2^k + 1 seconds: the sleeps of a call are, in their
\* order, 2, 3, 5, 9, 17, one behind each failed attempt.
C24_BackoffIsExponential ==
    /\ Len(sleeps) = Cardinality({ k \in 1..Len(requests) : Retryable(requests[k]) })
    /\ \A k \in 1..Len(sleeps) : sleeps[k] = 2 ^ (k - 1) + 1

\* the text behind the last final-answer marker of a text that holds one
AfterLastMarker(text) ==
    LET k == CHOOSE k \in 1..Len(text) :
                 text[k] = "MARK" /\ \A j \in (k + 1)..Len(text) : text[j] # "MARK"
    IN  SubSeq(text, k + 1, Len(text))

\* res is t without its leading and trailing whitespace
IsTrimOf(res, t) ==
    /\ res # << >> => res[1] # "ws" /\ res[Len(res)] # "ws"
    /\ \E a, b \in 0..Len(t) :
          /\ a + Len(res) + b = Len(t)
          /\ SubSeq(t, a + 1, a + Len(res)) = res
          /\ \A j \in (1..a) \cup ((Len(t) - b + 1)..Len(t)) : t[j] = "ws"

\* the result of the last pair is the trimmed text behind the last marker
\* of the LLM result r
TailIsResult(r) ==
    /\ Ended
    /\ IsTrimOf(LastPair.final, AfterLastMarker(r.text))

ParsedToNone(r) == ReachesParser(r) /\ _parse_tool_calls(r.text).calls = << >>

\* C26: an iteration whose response is handed to the parser (it has no final
\* marker) and parses to zero tool calls dispatches no tool; resumed from
\* its yield it appends exactly two messages, the assistant message with
\* the raw response and then the fixed corrective user message; and the
\* loop goes on to the next iteration, or to exhaustion when the counter
\* has reached max_iterations.
C26_NudgeAppendsTwo ==
    /\ [](\A i \in 1..Len(llm_results) :
            ParsedToNone(llm_results[i]) =>
                /\ ~DispatchedIn(i)
                /\ IF i = iteration /\ pc = "nudge"
                   THEN Len(messages) = 2 * i
                   ELSE /\ Len(messages) >= 2 * i + 2
                        /\ messages[2 * i + 1] = Msg("assistant", llm_results[i].text, << >>, "")
                        /\ messages[2 * i + 2] = Msg("user", << "NUDGE" >>, << >>, "")
                        /\ i < max_iterations => iteration > i
                        /\ i = max_iterations => /\ outcome = "exhausted"
                                                 /\ iteration = i
                                                 /\ Len(messages) = 2 * i + 2)
    /\ [][ pc = "nudge" =>
               /\ Len(messages') = Len(messages) + 2
               /\ SubSeq(messages', 1, Len(messages)) = messages
               /\ dispatched' = dispatched
               /\ invoked' = invoked
               /\ pc' \in {"thinking", "terminal"} ]_vars

\* a response whose only blocks were discarded has been answered with the
\* corrective message, and the next iteration has started
C26_Witness ==
    /\ pc = "thinking"
    /\ iteration = 2
    /\ Len(messages) = 4
    /\ ContainsSym(messages[3].text, {"OPEN"})
    /\ messages[4].text = << "NUDGE" >>
    /\ dispatched = << >>

\* the tool calls the parser returned for a result that reached it
ParsedCalls(r) == _parse_tool_calls(r.text).calls

\* C27: an iteration whose response parses to n >= 1 tool calls, once it is
\* past the yields of its tool calls, has appended exactly two messages: the
\* assistant message with the raw response, then one user message that
\* holds n tool results, the k-th for the k-th parsed call, and one
\* reminder.
C27_ToolIterationAppendsTwo ==
    \A i \in 1..Len(llm_results) :
        (ReachesParser(llm_results[i]) /\ ParsedCalls(llm_results[i]) # << >>) =>
            LET calls == ParsedCalls(llm_results[i])
            IN  IF i = iteration /\ pc = "tool"
                THEN Len(messages) = 2 * i
                ELSE /\ Len(messages) >= 2 * i + 2
                     /\ i = iteration => Len(messages) = 2 * i + 2
                     /\ messages[2 * i + 1] = Msg("assistant", llm_results[i].text, << >>, "")
                     /\ messages[2 * i + 2].role = "user"
                     /\ messages[2 * i + 2].text = << "TOOL_RESULTS" >>
                     /\ Len(messages[2 * i + 2].results) = Len(calls)
                     /\ \A k \in 1..Len(calls) :
                           messages[2 * i + 2].results[k].tool = calls[k].name.v
                     /\ messages[2 * i + 2].reminder \in {"normal", "urgent"}

\* the iterations that have appended a tool-results message
ToolIterations ==
    { i \in 1..CompletedIterations : messages[2 * i + 2].text = << "TOOL_RESULTS" >> }

\* the counter has reached the share of max_iterations that 4 is of the
\* default maximum of 8
AlmostOutOfBudget(i) == 8 * i >= 4 * max_iterations

IterationLine == {"iteration"}
ToolLine == {"tool"}
EndLine == {"final", "llm_error", "blocked", "empty_query", "limit"}
NudgeLine == {"no_tool_calls"}

\* the lines of the progress log of the kinds ks
LinesOf(ks) == SelectSeq(progress_log, LAMBDA l : l.k \in ks)

\* the responses so far that were parsed to no tool call
NudgedResponses == { i \in 1..Len(llm_results) : ParsedToNone(llm_results[i]) }

\* every yielded pair carries the log of the pair before it, unchanged, and
\* one more line; the newest pair carries the whole log
GrowingLog ==
    /\ \A k \in 1..(Len(stream) - 1) :
          /\ Len(stream[k + 1].progress) = Len(stream[k].progress) + 1
          /\ SubSeq(stream[k + 1].progress, 1, Len(stream[k].progress)) = stream[k].progress
    /\ stream # << >> =>
          /\ Len(stream[1].progress) = 1
          /\ stream[Len(stream)].progress = progress_log

\* one line per iteration started, one per tool invocation, one for the end
\* of the run, and it is the last line
CountedLines ==
    /\ Len(LinesOf(IterationLine)) = iteration
    /\ Len(LinesOf(ToolLine)) = Len(dispatched) + (IF pc = "tool" THEN 1 ELSE 0)
    /\ Len(LinesOf(EndLine)) = (IF outcome # "none" THEN 1 ELSE 0)
    /\ outcome # "none" => progress_log[Len(progress_log)].k \in EndLine

\* C29 as stated: the log grows pair by pair, and its lines are one per
\* iteration start, one per tool invocation and one for the end of the run,
\* and no others.
C29_ProgressLogLinesOnly ==
    /\ GrowingLog
    /\ CountedLines
    /\ \A j \in 1..Len(progress_log) :
          progress_log[j].k \in IterationLine \cup ToolLine \cup EndLine

\* C29, amended: the log grows pair by pair, and its lines are one per
\* iteration start, one per tool invocation, one per response without tool
\* call, and one for the end of the run, and no others.
C29_ProgressLogWithNudges ==
    /\ GrowingLog
    /\ CountedLines
    /\ Len(LinesOf(NudgeLine)) = Cardinality(NudgedResponses)
    /\ \A j \in 1..Len(progress_log) :
          progress_log[j].k \in IterationLine \cup ToolLine \cup EndLine \cup NudgeLine

\* a run with a nudge and a tool invocation has ended exhausted: five pairs
\* or more, the last with all the lines
C29_Witness ==
    /\ pc = "done"
    /\ outcome = "exhausted"
    /\ Len(LinesOf(NudgeLine)) >= 1
    /\ Len(LinesOf(ToolLine)) >= 1
    /\ Len(stream) >= 5
    /\ LastPair.progress = progress_log

\* the text holds a closed tool-call block: an opening marker with a
\* closing marker somewhere behind it
HasClosedBlock(text) ==
    \E i, j \in 1..Len(text) : i < j /\ text[i] = "OPEN" /\ text[j] = "CLOSE"

\* the text ends with the opening marker at o followed by a JSON object
\* with name and arguments, whitespace aside
EndsWithOpenBlock(text, o) ==
    /\ text[o] = "OPEN"
    /\ WellFormedCall(Strip(SubSeq(text, o + 1, Len(text))))

\* C30: a text without closed block that ends with an opening marker
\* followed by a JSON object with name and arguments parses to exactly one
\* tool call, the value of that object; in a text with a closed block the
\* calls come from closed blocks only, at most one for each closing marker,
\* so that a trailing unclosed block adds none.
C30_FallbackOnlyWithoutClosedBlock ==
    pc # "parse_start" =>
        /\ pc = "parsed"
        /\ \A o \in 1..Len(response.text) :
              (~HasClosedBlock(response.text) /\ EndsWithOpenBlock(response.text, o)) =>
                  tool_calls =
                      << json_loads(Strip(SubSeq(response.text, o + 1, Len(response.text)))).v >>
        /\ HasClosedBlock(response.text) =>
              Len(tool_calls) <= Len(SelectSeq(response.text, LAMBDA c : c = "CLOSE"))

\* three consecutive backticks
Fence == << "BT", "BT", "BT" >>

\* C31: the text sanitize_input returns holds no three consecutive
\* backticks, whatever the input and max_length; nor does the user message
\* that run_stream seeds into the transcript from it.
C31_NoFenceAfterSanitize ==
    /\ pc # "san_start" => ~Contains(sanitized.text, Fence)
    /\ RunStarted => /\ messages[2].text = sanitized.text
                     /\ ~Contains(messages[2].text, Fence)

\* a query in which backticks stand on both sides of a fake tag, three in
\* all, has been sanitized and seeded: the tag is gone, and the backticks it
\* kept apart were replaced
C31_Witness ==
    /\ RunStarted
    /\ ~Contains(user_query, Fence)
    /\ Len(SelectSeq(user_query, LAMBDA c : c = "BT")) = 3
    /\ Contains(messages[2].text, << "AP", "AP", "AP" >>)

\* the mapping a lookup tool returned was built from this row of its table
\* (or from its default record)
BuiltFrom(tool, result, row) ==
    CASE tool = "analyze_target_audience" ->
             /\ result.target_segments = row.segments
             /\ result.age_range = row.age_range
             /\ result.recommended_channels = row.channels
      [] tool = "analyze_seasonality" ->
             /\ result.peak_months = row.peak_months
             /\ result.low_months = row.low_months
      [] tool = "competitor_benchmark" ->
             /\ result.avg_marketing_budget_percent_of_revenue
                   = row.avg_marketing_budget_percent
             /\ result.avg_customer_acquisition_cost = row.avg_cac
             /\ result.target_ltv_cac_ratio = row.avg_ltv_cac_ratio
      [] tool = "estimate_budget" ->
             /\ result.estimated_cac = row.avg
             /\ result.budget_recommendations.minimum = row.min
             /\ result.budget_recommendations.maximum = row.max

\* the generic record of a tool
DefaultOf(tool) ==
    CASE tool = "analyze_target_audience" -> general_audience
      [] tool = "analyze_seasonality" -> default_seasonality
      [] tool = "competitor_benchmark" -> default_benchmark
      [] tool = "estimate_budget" -> default_cac

\* the industry matches no key of the table, in either direction and
\* whatever the case
MatchesNoKey(tool, industry) ==
    \A key \in KeysOf(tool) :
        /\ ~Contains(Lower(industry), Lower(key))
        /\ ~Contains(Lower(key), Lower(industry))

\* C32: a lookup tool called with an industry equal to a key of its own
\* table returns the record of that key; called with an industry matching
\* no key it returns its generic default record.
C32_LookupByKey ==
    pc = "lookup_done" =>
        LET tool     == tool_calls[1].name
            industry == tool_calls[1].arguments.industry
            table    == TableOf(tool)
        IN  /\ \A k \in 1..Len(table) :
                  table[k].key = industry => BuiltFrom(tool, tool_results[1], table[k])
            /\ MatchesNoKey(tool, industry) =>
                  BuiltFrom(tool, tool_results[1], DefaultOf(tool))

\* the result of the newest LLM call
LastResult == llm_results[Len(llm_results)]

Dangerous(text) == ContainsSym(text, {"D_os", "D_eval"})
Marked(text) == ContainsSym(text, {"MARK"})

\* C33: the checks on the result of an LLM call have a fixed precedence.
\* A failed call (None or the empty string) ends the run with the failure
\* message; otherwise a text with a dangerous pattern ends it blocked,
\* marker or not; otherwise a text with the marker ends it with a final
\* answer, tool-call blocks or not, and no tool is dispatched in that
\* iteration; only a text that passed all three reaches the parser, and
\* every earlier response of the run was of that kind.
C33_CheckPrecedence ==
    llm_results # << >> =>
        LET r == LastResult
        IN  /\ Falsy(r) =>
                  /\ Ended /\ outcome = "llm_failure"
                  /\ LastPair.final = MSG_LLM_FAIL
            /\ (~Falsy(r) /\ Dangerous(r.text)) =>
                  /\ Ended /\ outcome = "safety"
                  /\ LastPair.final = MSG_BLOCKED
                  /\ ~DispatchedIn(iteration)
            /\ (~Falsy(r) /\ ~Dangerous(r.text) /\ Marked(r.text)) =>
                  /\ Ended /\ outcome = "final"
                  /\ ~DispatchedIn(iteration)
            /\ (~Falsy(r) /\ ~Dangerous(r.text) /\ ~Marked(r.text)) =>
                  outcome \notin {"llm_failure", "safety", "final"}
            /\ \A k \in 1..(Len(llm_results) - 1) :
                  LET e == llm_results[k]
                  IN  ~Falsy(e) /\ ~Dangerous(e.text) /\ ~Marked(e.text)

\* after an iteration that dispatched a tool, a response holding the marker
\* and a tool-call block has ended the run with a final answer
C33_Witness ==
    /\ Len(llm_results) = 2
    /\ DispatchedIn(1)
    /\ Marked(LastResult.text)
    /\ ContainsSym(LastResult.text, {"OPEN"})
    /\ outcome = "final"
    /\ ~DispatchedIn(2)

\* a response holding a dangerous pattern and the marker has ended the run
\* blocked
C33_WitnessBlocked ==
    /\ llm_results # << >>
    /\ Dangerous(LastResult.text)
    /\ Marked(LastResult.text)
    /\ outcome = "safety"

\* the role the k-th message of a transcript has when the roles are system,
\* user, and then assistant and user in turn
RoleAt(k) ==
    IF k = 1 THEN "system"
    ELSE IF k % 2 = 0 THEN "user" ELSE "assistant"

\* the transcript at an LLM call: its length, its roles, its first two
\* messages
TranscriptAtCall ==
    pc = "thinking" =>
        /\ Len(messages) = 2 + 2 * (iteration - 1)
        /\ \A k \in 1..Len(messages) : messages[k].role = RoleAt(k)
        /\ messages[Len(messages)].role = "user"
        /\ messages[1] = Msg("system", << "SYSTEM_PROMPT" >>, << >>, "")
        /\ messages[2] =
              Msg("user", sanitize_input(user_query, default_max_length).text, << >>, "")

\* a step leaves every message of the transcript in its place
MessagesOnlyAppended ==
    /\ Len(messages') >= Len(messages)
    /\ SubSeq(messages', 1, Len(messages)) = messages

\* C34: at every LLM call the transcript has 2 + 2 * (iteration - 1)
\* messages, with the roles system, user and then assistant and user in
\* turn, the last one a user message, and the first two are the system
\* prompt and the sanitized query; and no step removes or changes a message
\* of the transcript.
C34_TranscriptShape == []TranscriptAtCall /\ [][MessagesOnlyAppended]_vars

\* the third LLM call of a run is due, after a nudge and an iteration with
\* tools
C34_Witness ==
    /\ pc = "thinking"
    /\ iteration = 3
    /\ Len(messages) = 6
    /\ \E k \in {4, 6} : messages[k].text = << "NUDGE" >>
    /\ \E k \in {4, 6} : messages[k].text = << "TOOL_RESULTS" >>

\* the positions of the assistant messages of the transcript
AssistantAt == { k \in 1..Len(messages) : messages[k].role = "assistant" }

\* C35: every assistant message of the transcript is the text of a
\* response of this run, in the order of the calls, that passed
\* check_response_safety and holds no final-answer marker; the response
\* that ended a run blocked or with a final answer is not in the transcript.
C35_AssistantMessagesSafe ==
    /\ \A k \in AssistantAt :
          /\ k % 2 = 1 /\ (k - 1) \div 2 <= Len(llm_results)
          /\ llm_results[(k - 1) \div 2].ok
          /\ messages[k].text = llm_results[(k - 1) \div 2].text
          /\ check_response_safety(messages[k].text).safe
          /\ ~HasMarker(messages[k].text)
    /\ outcome \in {"safety", "final"} =>
          /\ Cardinality(AssistantAt) = Len(llm_results) - 1
          /\ \A k \in AssistantAt : messages[k].text # LastResult.text

\* two responses are in the transcript, and the third was rejected by the
\* safety filter
C35_Witness ==
    /\ Cardinality(AssistantAt) = 2
    /\ Len(llm_results) = 3
    /\ outcome = "safety"
    /\ ~check_response_safety(LastResult.text).safe

\* the LLM-client calls the run has made: those that returned and the one
\* under way
CallsMade == Len(llm_results) + (IF pc \in {"llm_loop", "llm_returned"} THEN 1 ELSE 0)

\* a step after the end of the run makes no LLM call and sends no request
NothingAfterEnd ==
    Ended => /\ llm_results' = llm_results
             /\ requests' = requests
             /\ pc' \notin {"llm_loop", "llm_returned"}

\* C36, as stated: in every state the number of LLM-client calls made
\* equals the iteration counter; a run makes at most max_iterations calls
\* and at most max_iterations * max_retries requests, and none after its
\* end.
C36_CallsEqualCounter ==
    /\ [](CallsMade = iteration)
    /\ [](CallsMade <= max_iterations)
    /\ [](Len(requests) <= max_iterations * max_retries)
    /\ [][NothingAfterEnd]_vars

\* C36, amended: the number of LLM-client calls made equals the iteration
\* counter, except while run_stream is suspended at the yield of the
\* iteration line, behind the increment and before the call, where it is
\* one less; a run makes at most max_iterations calls and at most
\* max_iterations * max_retries requests, and none after its end.
C36_CallsFollowCounter ==
    /\ [](CallsMade = IF pc = "thinking" THEN iteration - 1 ELSE iteration)
    /\ [](CallsMade <= max_iterations)
    /\ [](Len(requests) <= max_iterations * max_retries)
    /\ [][NothingAfterEnd]_vars

\* a run that used its whole budget of requests: max_iterations calls of
\* max_retries requests each, and it has ended
C36_Witness ==
    /\ Ended
    /\ max_iterations = 2
    /\ CallsMade = max_iterations
    /\ iteration = max_iterations
    /\ Len(requests) = max_iterations * max_retries

\* the run is suspended at the yield of its second iteration line: one call
\* made, the counter at two
C36_WitnessSuspended ==
    /\ pc = "thinking"
    /\ iteration = 2
    /\ CallsMade = 1

\* what _call_llm returns on a completion with empty content
EmptyContent == [ok |-> TRUE, text |-> << >>]

\* the step ends the run as a failure of the LLM client does: the error
\* line and the failure message in a terminal pair, nothing appended to the
\* transcript, no tool begun
EndsAsClientFailure ==
    /\ pc' = "terminal"
    /\ outcome' = "llm_failure"
    /\ progress_log' = Append(progress_log, Line("llm_error", 0, NoName))
    /\ Len(stream') = Len(stream) + 1
    /\ stream'[Len(stream')].final = MSG_LLM_FAIL
    /\ messages' = messages
    /\ UNCHANGED << tool_calls, tc_idx, tool_results, dispatched, iteration >>

\* C37: when a request succeeds with an empty content, _call_llm returns
\* the empty string, and run_stream treats it exactly as it treats None: the
\* run ends in ABORTED with the generic failure message, and the response is
\* neither parsed nor nudged nor appended.
C37_EmptyContentIsFailure ==
    /\ []((pc = "llm_returned" /\ requests # << >>
            /\ requests[Len(requests)] = Completion(<< >>)) => response = EmptyContent)
    /\ [][(pc = "llm_returned" /\ response \in {EmptyContent, None}) => EndsAsClientFailure]_vars
    /\ []((llm_results # << >> /\ LastResult = EmptyContent) =>
              /\ Ended /\ outcome = "llm_failure"
              /\ LastPair.final = MSG_LLM_FAIL
              /\ progress_log[Len(progress_log)].k = "llm_error")

\* behind a nudge, the second call of a run got an empty content on its
\* second request: the run has ended ABORTED
C37_Witness ==
    /\ Ended
    /\ outcome = "llm_failure"
    /\ Len(llm_results) = 2
    /\ LastResult = EmptyContent
    /\ Len(requests) >= 3
    /\ requests[Len(requests)] = Completion(<< >>)
    /\ requests[Len(requests) - 1] = HttpError(429)
    /\ messages[Len(messages)].text = << "NUDGE" >>

\* run_stream, iterated without run_agent, has returned
Returned == pc = "done" /\ driver = "direct"

\* C38: when run_stream has yielded its pairs and returned, run() returns
\* the final_result of the terminal pair, which is the last pair; with a
\* progress_callback it has called it once for each pair, in the order of
\* the yields, with the newest line of the progress log of that pair; and
\* without one it returns the same string.
C38_RunReturnsTerminalResult ==
    Returned =>
        LET r == run(stream, TRUE)
        IN  /\ stream # << >>
            /\ r.result = LastPair.final
            /\ Len(r.calls) = Len(stream)
            /\ \A k \in 1..Len(stream) :
                  /\ stream[k].progress # << >>
                  /\ r.calls[k] = stream[k].progress[Len(stream[k].progress)]
            /\ r.calls = IF outcome = "validation" THEN stream[1].progress ELSE progress_log
            /\ run(stream, FALSE) = [result |-> r.result, calls |-> << >>]

\* a run of two iterations with a tool has returned a final answer: five
\* pairs, five calls of the callback, the answer returned
C38_Witness ==
    /\ Returned
    /\ outcome = "final"
    /\ dispatched # << >>
    /\ Len(stream) >= 4
    /\ run(stream, TRUE).result = FinalAnswer(LastResult.text)
    /\ run(stream, TRUE).result # << >>
    /\ Len(run(stream, TRUE).calls) = Len(stream)

\* MarketingAgent.run has returned or raised
RunOver == driver = "direct" /\ pc \in {"done", "crashed"}

\* the transcript run_stream handed to its j-th LLM call
TranscriptAt(j) == SubSeq(messages, 1, 2 * j)

\* C39: for a query that sanitize_input returns unchanged and LLM results
\* whose every text passes check_response_safety, DebugMarketingAgent.run
\* given the same results returns when MarketingAgent.run returns, and the
\* same string; it makes the same number of LLM calls, each with the same
\* transcript.
C39_DebugRunAgrees ==
    ( /\ RunOver
      /\ sanitize_input(user_query, default_max_length).text = user_query
      /\ \A k \in 1..Len(llm_results) :
            check_response_safety(llm_results[k].text).safe ) =>
        LET d == DebugRun(user_query, llm_results, max_iterations)
        IN  /\ pc = "done" => /\ d.how = "returned"
                              /\ d.value = run(stream, FALSE).result
            /\ pc = "crashed" => d.how = "raised" /\ d.site = crash
            /\ Len(d.seen) = Len(llm_results)
            /\ \A j \in 1..Len(llm_results) : d.seen[j] = TranscriptAt(j)

====
